---- MODULE Spec2Model ----
(***************************************************************************)
(* Rolling inventory simulation and capacity optimisation of the           *)
(* warehouse forecast application.                                         *)
(*                                                                         *)
(* Quantities of inventory and flow are Python floats in the source.  They *)
(* are modelled exactly, as integers counting TENTHS of a unit, so that    *)
(* the roundings the source applies when it records a value (round(x) to   *)
(* whole units, round(x, 1) to a tenth of a percent) are real conversions. *)
(* Utilisation percentages are integers counting tenths of a percent.      *)
(***************************************************************************)
EXTENDS Integers, Sequences, FiniteSets, TLC

VARIABLES
    pc,                   \* position of the run
    training_data,        \* self.training_data[w][p][flow]: [n, mean] of column y
    prophet_models,       \* self.prophet_models[w][p][flow]: TRUE = fitted, FALSE = None
    starting_inventory,   \* self.starting_inventory[w][p]
    warehouse_capacities, \* self.warehouse_capacities[w]['capacity'], whole units
    month,                \* index into forecast_dates of the month in progress
    wh,                   \* index into self.warehouses of the update loop
    current_inventory,    \* current_inventory[w][p] (unrounded)
    monthly_forecasts,    \* monthly_forecasts[w][p][flow]: Seq of [forecast, lower, upper]
    forecasts,            \* results[..]['forecasts'][flow]: Seq of the rounded rows
    rolling_inventory,    \* results[..]['rolling_inventory']: Seq of ledger entries
    monthly_positions,    \* results['warehouses'][w]['monthly_positions']
    alerts,               \* results['alerts']
    network_summary,      \* results['network_summary']
    warehouse_forecasts,  \* optimizer: monthly warehouse totals of the loaded forecast
    optimizer_capacities, \* optimizer: self.warehouse_capacities[w]['capacity']
    business_rules,       \* optimizer: self.business_rules
    capacity_analysis,    \* the dict analyze_capacity_utilization returned
    high_util_warehouses, \* candidate sources of the last optimizer call
    low_util_warehouses,  \* candidate destinations of the last optimizer call
    transfer_opportunities, \* the list identify_transfer_opportunities returned
    risk_input,           \* arguments of a call of _assess_capacity_risk
    risk_result,          \* what that call returned
    analysis_order,       \* the order in which the analyzer visits the warehouses
    analysis_step,        \* index into analysis_order of the warehouse in progress
    distance_query,       \* arguments of two calls of _get_distance_factor
    distance_result,      \* what the calls returned
    warehouse_list,       \* self.warehouses of a forecast run with its own list order
    product_list,         \* self.products of that run
    pr,                   \* index into product_list of the product in progress
    warehouse_monthly_position, \* the position of the warehouse in progress
    heap,                 \* the nested dicts of the analyses, by object identity
    base_analysis,        \* baseline analysis: per warehouse, the objects it refers to
    scenario_analysis,    \* scenario analysis: per warehouse, the objects it refers to
    scenario_config,      \* the scenario configuration of the UI
    baseline_transfers,   \* transfers computed from the baseline after the scenario
    scenario_transfers,   \* transfers computed from the scenario analysis
    baseline_alerts,      \* alerts computed from the baseline after the scenario
    scenario_alerts,      \* alerts computed from the scenario analysis
    impact_summary        \* what calculate_scenario_impact returned

forecast_vars == <<training_data, prophet_models, starting_inventory,
                   warehouse_capacities, month, wh, current_inventory,
                   monthly_forecasts, forecasts, rolling_inventory,
                   monthly_positions, alerts, network_summary>>

optimizer_vars == <<warehouse_forecasts, optimizer_capacities, business_rules,
                    capacity_analysis, high_util_warehouses,
                    low_util_warehouses, transfer_opportunities>>

analyzer_vars == <<risk_input, risk_result, analysis_order, analysis_step>>

distance_vars == <<distance_query, distance_result>>

order_vars == <<warehouse_list, product_list, pr, warehouse_monthly_position>>

scenario_results == <<scenario_analysis, baseline_transfers,
                      scenario_transfers, baseline_alerts, scenario_alerts,
                      impact_summary>>

scenario_vars == <<heap, base_analysis, scenario_config, scenario_results>>

vars == <<pc, forecast_vars, optimizer_vars, analyzer_vars, scenario_vars,
          distance_vars, order_vars>>

\* The variables of a program that is not running.
ForecastIdle ==
    /\ training_data = <<>>
    /\ prophet_models = <<>>
    /\ starting_inventory = <<>>
    /\ warehouse_capacities = <<>>
    /\ month = 0
    /\ wh = 0
    /\ current_inventory = <<>>
    /\ monthly_forecasts = <<>>
    /\ forecasts = <<>>
    /\ rolling_inventory = <<>>
    /\ monthly_positions = <<>>
    /\ alerts = <<>>
    /\ network_summary = <<>>

AnalyzerIdle ==
    /\ risk_input = <<>>
    /\ risk_result = <<>>
    /\ analysis_order = <<>>
    /\ analysis_step = 0

DistanceIdle ==
    /\ distance_query = <<>>
    /\ distance_result = <<>>

OrderIdle ==
    /\ warehouse_list = <<>>
    /\ product_list = <<>>
    /\ pr = 0
    /\ warehouse_monthly_position = <<>>

ScenarioIdle ==
    /\ heap = <<>>
    /\ base_analysis = <<>>
    /\ scenario_analysis = <<>>
    /\ scenario_config = <<>>
    /\ baseline_transfers = <<>>
    /\ scenario_transfers = <<>>
    /\ baseline_alerts = <<>>
    /\ scenario_alerts = <<>>
    /\ impact_summary = <<>>

-----------------------------------------------------------------------------
(* Bounds of the model.                                                    *)

\* generate_rolling_forecast(horizon_months): number of forecast periods.
horizon_months == 2

\* The simulated network: the loops of the source run over self.warehouses
\* and self.products in list order.
ForecastWarehouses == <<"Atlanta">>
products == <<"Footwear", "Apparel">>
flow_types == <<"inflows", "outflows">>

\* Starting inventory snapshots (whole units, in tenths).
StartingInventories == {0, 40}

\* Warehouse capacities (whole units).
Capacities == {10}

\* Monthly training series a (warehouse, product, flow) may have: n rows of
\* mean `mean` (tenths).  A series of fewer than 24 rows gets no model.
TrainingSeries ==
    { [n |-> 0,  mean |-> 0],
      [n |-> 12, mean |-> -15],
      [n |-> 12, mean |-> 5],
      [n |-> 24, mean |-> 5] }

\* Rows a fitted model may predict for one date (tenths): yhat and its
\* interval.  Prophet's additive model may predict below zero.
ProphetRows(flow_type) ==
    IF flow_type = "inflows"
    THEN { [yhat |-> -4, yhat_lower |-> -10, yhat_upper |-> 2],
           [yhat |-> 15, yhat_lower |-> 11,  yhat_upper |-> 19] }
    ELSE { [yhat |-> 5,  yhat_lower |-> 1,   yhat_upper |-> 9],
           [yhat |-> 45, yhat_lower |-> 41,  yhat_upper |-> 49] }

-----------------------------------------------------------------------------
(* Arithmetic helpers.                                                     *)

Range(s) == { s[i] : i \in 1..Len(s) }

Max(a, b) == IF a >= b THEN a ELSE b

Min(a, b) == IF a <= b THEN a ELSE b

\* Python's round() of the rational n/d (d > 0): nearest integer, ties to
\* the even one.
RoundHalfEven(n, d) ==
    LET q == n \div d
        r == n % d
    IN  IF 2 * r < d THEN q
        ELSE IF 2 * r > d THEN q + 1
        ELSE IF q % 2 = 0 THEN q ELSE q + 1

\* round(x) of a quantity held in tenths: whole units.
RoundUnits(x) == RoundHalfEven(x, 10)

\* round(amount / capacity * 100, 1): tenths of a percent, amount in tenths
\* of a unit and capacity in whole units.
UtilizationPct1(amount, capacity) == RoundHalfEven(amount * 1000, capacity * 10)

\* round(x, 1) of the percentage x = num / den held in hundredths of a
\* percent (den > 0); the result is in hundredths of a percent too.
RoundPct1(num, den) == 10 * RoundHalfEven(num, den * 10)

RECURSIVE SumSeq(_)
SumSeq(s) == IF s = <<>> THEN 0 ELSE s[1] + SumSeq(Tail(s))

-----------------------------------------------------------------------------
(* train_prophet_models                                                    *)

MinTrainingMonths == 24

\* A model is fitted only on at least two years of data, and the fit may
\* fail (the except branch stores None).
CanTrain(data) == data.n >= MinTrainingMonths

TrainProphetModels ==
    /\ pc = "train"
    /\ \E fit_ok \in [Range(ForecastWarehouses) ->
                        [Range(products) -> [Range(flow_types) -> BOOLEAN]]] :
          prophet_models' =
              [w \in Range(ForecastWarehouses) |->
                [p \in Range(products) |->
                  [f \in Range(flow_types) |->
                     CanTrain(training_data[w][p][f]) /\ fit_ok[w][p][f]]]]
    /\ pc' = "start"
    /\ UNCHANGED <<training_data, starting_inventory, warehouse_capacities,
                   month, wh, current_inventory, monthly_forecasts, forecasts,
                   rolling_inventory, monthly_positions, alerts,
                   network_summary>>
    /\ UNCHANGED <<optimizer_vars, analyzer_vars, scenario_vars>>
    /\ UNCHANGED <<distance_vars, order_vars>>

-----------------------------------------------------------------------------
(* generate_rolling_forecast: the forecast of one series for one date      *)

\* The branch taken when the series has a model: no negative flows.
ModelForecast(row) ==
    [forecast |-> Max(0, row.yhat),
     lower    |-> Max(0, row.yhat_lower),
     upper    |-> Max(0, row.yhat_upper)]

\* Mutant: a series without history is given a default forecast of one unit
\* instead of zero.
FallbackForecastDefault(hist_data) ==
    IF hist_data.n > 0
    THEN [forecast |-> hist_data.mean,
          lower    |-> (hist_data.mean * 8) \div 10,
          upper    |-> (hist_data.mean * 12) \div 10]
    ELSE [forecast |-> 10, lower |-> 8, upper |-> 12]

\* The fallback branch: historical average, or zero without history.
FallbackForecast(hist_data) ==
    IF hist_data.n > 0
    THEN [forecast |-> hist_data.mean,
          lower    |-> (hist_data.mean * 8) \div 10,
          upper    |-> (hist_data.mean * 12) \div 10]
    ELSE [forecast |-> 0, lower |-> 0, upper |-> 0]

SeriesForecast(model, hist_data, row) ==
    IF model THEN ModelForecast(row) ELSE FallbackForecast(hist_data)

\* The row stored in results: each value rounded to whole units.
RoundedForecast(fc) ==
    [forecast |-> RoundUnits(fc.forecast),
     lower    |-> RoundUnits(fc.lower),
     upper    |-> RoundUnits(fc.upper)]

\* What the models of one (warehouse, product) may predict for one date.
FlowRows ==
    { r \in [Range(flow_types) ->
               UNION { ProphetRows(f) : f \in Range(flow_types) }] :
        \A f \in Range(flow_types) : r[f] \in ProphetRows(f) }

\* "Predict flows for this month": the first loop nest of the date loop.
PredictFlows ==
    /\ pc = "predict"
    /\ \E rows \in [Range(ForecastWarehouses) ->
                      [Range(products) -> FlowRows]] :
          LET fc(w, p, f) == SeriesForecast(prophet_models[w][p][f],
                                            training_data[w][p][f],
                                            rows[w][p][f])
          IN  /\ monthly_forecasts' =
                    [w \in Range(ForecastWarehouses) |->
                      [p \in Range(products) |->
                        [f \in Range(flow_types) |->
                           Append(monthly_forecasts[w][p][f], fc(w, p, f))]]]
              /\ forecasts' =
                    [w \in Range(ForecastWarehouses) |->
                      [p \in Range(products) |->
                        [f \in Range(flow_types) |->
                           Append(forecasts[w][p][f],
                                  RoundedForecast(fc(w, p, f)))]]]
    /\ pc' = "update"
    /\ UNCHANGED <<training_data, prophet_models, starting_inventory,
                   warehouse_capacities, month, wh, current_inventory,
                   rolling_inventory, monthly_positions, alerts,
                   network_summary>>
    /\ UNCHANGED <<optimizer_vars, analyzer_vars, scenario_vars>>
    /\ UNCHANGED <<distance_vars, order_vars>>

-----------------------------------------------------------------------------
(* generate_rolling_forecast: initialisation                               *)

EmptyLedger ==
    [w \in Range(ForecastWarehouses) |-> [p \in Range(products) |-> <<>>]]

EmptyForecasts ==
    [w \in Range(ForecastWarehouses) |->
      [p \in Range(products) |-> [f \in Range(flow_types) |-> <<>>]]]

\* 'capacity_info': self.warehouse_capacities[warehouse] raises KeyError
\* for a warehouse the configuration does not hold.
CapacityMissing ==
    \E w \in Range(ForecastWarehouses) : w \notin DOMAIN warehouse_capacities

\* "Initialize rolling inventory positions": a copy of the starting
\* inventory of every warehouse; then the result skeleton is built, which
\* fails when a capacity is missing.
StartForecast ==
    /\ pc = "start"
    /\ current_inventory' =
          [w \in Range(ForecastWarehouses) |-> starting_inventory[w]]
    /\ pc' = IF CapacityMissing THEN "error" ELSE "predict"
    /\ UNCHANGED <<training_data, prophet_models, starting_inventory,
                   warehouse_capacities, month, wh, monthly_forecasts,
                   forecasts, rolling_inventory, monthly_positions, alerts,
                   network_summary>>
    /\ UNCHANGED <<optimizer_vars, analyzer_vars, scenario_vars>>
    /\ UNCHANGED <<distance_vars, order_vars>>

-----------------------------------------------------------------------------
(* generate_rolling_forecast: "Update rolling inventory positions"         *)

AlertThreshold == 90
HighSeverityThreshold == 95

\* Mutant: the sign of the net flow reversed.
NetFlowReversed(inflow, outflow) == outflow - inflow

NetFlow(inflow, outflow) == inflow - outflow

\* Mutant: the position is not clamped at zero.
AfterPositionUnclamped(before_position, net_flow) == before_position + net_flow

\* Mutant: an outflow that cannot be served leaves the position as it was.
AfterPositionKeep(before_position, net_flow) ==
    IF before_position + net_flow < 0
    THEN before_position
    ELSE before_position + net_flow

\* "New position after flows": can't go negative.
AfterPosition(before_position, net_flow) == Max(0, before_position + net_flow)

\* Mutant: the starting position is read after the inventory was updated.
LedgerEntryStale(before_position, inflow, outflow, capacity) ==
    LET net_flow       == NetFlow(inflow, outflow)
        after_position == AfterPosition(before_position, net_flow)
    IN  [starting_position    |-> RoundUnits(after_position),
         inflow               |-> RoundUnits(inflow),
         outflow              |-> RoundUnits(outflow),
         net_flow             |-> RoundUnits(net_flow),
         ending_position      |-> RoundUnits(after_position),
         capacity_utilization |-> UtilizationPct1(after_position, capacity)]

\* The entry stored under rolling_inventory[month_key].
LedgerEntry(before_position, inflow, outflow, capacity) ==
    LET net_flow       == NetFlow(inflow, outflow)
        after_position == AfterPosition(before_position, net_flow)
    IN  [starting_position    |-> RoundUnits(before_position),
         inflow               |-> RoundUnits(inflow),
         outflow              |-> RoundUnits(outflow),
         net_flow             |-> RoundUnits(net_flow),
         ending_position      |-> RoundUnits(after_position),
         capacity_utilization |-> UtilizationPct1(after_position, capacity)]

\* Mutant: the threshold itself raises the alert.
UtilizationAtLeast(total, capacity, pct) == total * 100 >= pct * capacity * 10

\* utilization > pct, for utilization = total / capacity * 100 (total in
\* tenths of a unit, capacity in whole units).
UtilizationAbove(total, capacity, pct) == total * 100 > pct * capacity * 10

\* "Check for alerts": the alerts one warehouse adds for one month.
CapacityAlerts(warehouse, date, total_after, capacity) ==
    IF UtilizationAbove(total_after, capacity, AlertThreshold)
    THEN << [warehouse |-> warehouse,
             date      |-> date,
             type      |-> "OVER_CAPACITY",
             severity  |-> IF UtilizationAbove(total_after, capacity,
                                               HighSeverityThreshold)
                           THEN "HIGH" ELSE "MEDIUM"] >>
    ELSE <<>>

\* One iteration of the warehouse loop of the month in progress: every
\* product of the warehouse, then the warehouse total and its alert.
UpdateWarehouse ==
    /\ pc = "update"
    /\ LET w        == ForecastWarehouses[wh]
           capacity == warehouse_capacities[w]
           inflow(p)  == monthly_forecasts[w][p]["inflows"][month].forecast
           outflow(p) == monthly_forecasts[w][p]["outflows"][month].forecast
           before(p)  == current_inventory[w][p]
           after(p)   == AfterPosition(before(p), NetFlow(inflow(p), outflow(p)))
           total_before == SumSeq([i \in 1..Len(products) |-> before(products[i])])
           total_after  == SumSeq([i \in 1..Len(products) |-> after(products[i])])
       IN  /\ current_inventory' =
                 [current_inventory EXCEPT
                    ![w] = [p \in Range(products) |-> after(p)]]
           /\ rolling_inventory' =
                 [rolling_inventory EXCEPT
                    ![w] = [p \in Range(products) |->
                              Append(rolling_inventory[w][p],
                                     LedgerEntry(before(p), inflow(p),
                                                 outflow(p), capacity))]]
           /\ monthly_positions' =
                 [monthly_positions EXCEPT
                    ![w] = Append(@,
                       [date                   |-> month,
                        products               |->
                            [p \in Range(products) |->
                               [before |-> RoundUnits(before(p)),
                                after  |-> RoundUnits(after(p))]],
                        warehouse_total_before |-> total_before,
                        warehouse_total_after  |-> total_after,
                        capacity_utilization   |->
                            UtilizationPct1(total_after, capacity)])]
           /\ alerts' = alerts \o CapacityAlerts(w, month, total_after, capacity)
    /\ IF wh < Len(ForecastWarehouses)
       THEN /\ wh' = wh + 1
            /\ UNCHANGED <<pc, month>>
       ELSE /\ wh' = 1
            /\ IF month < horizon_months
               THEN pc' = "predict" /\ month' = month + 1
               ELSE pc' = "summary" /\ UNCHANGED month
    /\ UNCHANGED <<training_data, prophet_models, starting_inventory,
                   warehouse_capacities, monthly_forecasts, forecasts,
                   network_summary>>
    /\ UNCHANGED <<optimizer_vars, analyzer_vars, scenario_vars>>
    /\ UNCHANGED <<distance_vars, order_vars>>

-----------------------------------------------------------------------------
(* _generate_network_summary                                               *)

\* Mutant: only the last recorded month of every pair is summed.
TotalForecastLastMonth(flow_type) ==
    SumSeq([i \in 1..Len(ForecastWarehouses) |->
      SumSeq([j \in 1..Len(products) |->
        LET rows == forecasts[ForecastWarehouses[i]][products[j]][flow_type]
        IN  IF rows = <<>> THEN 0 ELSE rows[Len(rows)].forecast])])

\* The sum over every warehouse, product and recorded month of the rounded
\* forecasts of one flow type.
TotalForecast(flow_type) ==
    SumSeq([i \in 1..Len(ForecastWarehouses) |->
      SumSeq([j \in 1..Len(products) |->
        LET rows == forecasts[ForecastWarehouses[i]][products[j]][flow_type]
        IN  SumSeq([t \in 1..Len(rows) |-> rows[t].forecast])])])

\* "Get final inventory position": the ending position of the last month.
FinalNetworkInventory ==
    SumSeq([i \in 1..Len(ForecastWarehouses) |->
      SumSeq([j \in 1..Len(products) |->
        LET inventory_data == rolling_inventory[ForecastWarehouses[i]][products[j]]
        IN  IF inventory_data # <<>>
            THEN inventory_data[Len(inventory_data)].ending_position
            ELSE 0])])

WarehousesAtRisk ==
    Cardinality({ i \in 1..Len(alerts) : alerts[i].severity = "HIGH" })

NetworkSummary ==
    [total_warehouses          |-> Len(ForecastWarehouses),
     total_products            |-> Len(products),
     network_projected_inflow  |-> TotalForecast("inflows"),
     network_projected_outflow |-> TotalForecast("outflows"),
     network_net_position      |-> TotalForecast("inflows")
                                     - TotalForecast("outflows"),
     final_network_inventory   |-> FinalNetworkInventory,
     warehouses_at_risk        |-> WarehousesAtRisk,
     total_alerts              |-> Len(alerts)]

\* The end of generate_rolling_forecast: the summary is stored and the
\* results are returned.
GenerateNetworkSummary ==
    /\ pc = "summary"
    /\ network_summary' = NetworkSummary
    /\ pc' = "done"
    /\ UNCHANGED <<training_data, prophet_models, starting_inventory,
                   warehouse_capacities, month, wh, current_inventory,
                   monthly_forecasts, forecasts, rolling_inventory,
                   monthly_positions, alerts>>
    /\ UNCHANGED <<optimizer_vars, analyzer_vars, scenario_vars>>
    /\ UNCHANGED <<distance_vars, order_vars>>

-----------------------------------------------------------------------------
(* The rolling forecast run.                                               *)

Init ==
    /\ pc = "train"
    /\ training_data \in
          [Range(ForecastWarehouses) ->
             [Range(products) -> [Range(flow_types) -> TrainingSeries]]]
    /\ prophet_models = <<>>
    /\ starting_inventory \in
          [Range(ForecastWarehouses) -> [Range(products) -> StartingInventories]]
    /\ warehouse_capacities \in [Range(ForecastWarehouses) -> Capacities]
    /\ month = 1
    /\ wh = 1
    /\ current_inventory = <<>>
    /\ monthly_forecasts = EmptyForecasts
    /\ forecasts = EmptyForecasts
    /\ rolling_inventory = EmptyLedger
    /\ monthly_positions = [w \in Range(ForecastWarehouses) |-> <<>>]
    /\ alerts = <<>>
    /\ network_summary = <<>>
    /\ warehouse_forecasts = <<>>
    /\ optimizer_capacities = <<>>
    /\ business_rules = <<>>
    /\ capacity_analysis = <<>>
    /\ high_util_warehouses = <<>>
    /\ low_util_warehouses = <<>>
    /\ transfer_opportunities = <<>>
    /\ AnalyzerIdle
    /\ DistanceIdle
    /\ OrderIdle
    /\ ScenarioIdle

Next ==
    \/ TrainProphetModels
    \/ StartForecast
    \/ PredictFlows
    \/ UpdateWarehouse
    \/ GenerateNetworkSummary

Spec == Init /\ [][Next]_vars

-----------------------------------------------------------------------------
(* Properties of the ledger.                                               *)

Pairs == Range(ForecastWarehouses) \X Range(products)

Ledger(w, p) == rolling_inventory[w][p]

\* The unrounded forecast of a flow that entered month t of the ledger.
Flow(w, p, flow_type, t) == monthly_forecasts[w][p][flow_type][t].forecast

\* The position the contract prescribes after month t: the starting
\* inventory, then max(0, previous + inflow - outflow) month after month.
RECURSIVE Position(_, _, _)
Position(w, p, t) ==
    IF t = 0 THEN starting_inventory[w][p]
    ELSE LET x == Position(w, p, t - 1)
                    + Flow(w, p, "inflows", t) - Flow(w, p, "outflows", t)
         IN  IF x < 0 THEN 0 ELSE x

Abs(x) == IF x < 0 THEN -x ELSE x

\* C1: in every ledger, for every (warehouse, product, period), the recorded
\* ending_position is >= 0.
C1_EndingNonNegative ==
    \A wp \in Pairs : \A t \in 1..Len(Ledger(wp[1], wp[2])) :
        Ledger(wp[1], wp[2])[t].ending_position >= 0

\* C1 witness: a period whose flows would have driven the position below
\* zero is in the ledger.
C1_Witness ==
    \E wp \in Pairs : \E t \in 1..Len(Ledger(wp[1], wp[2])) :
        /\ Position(wp[1], wp[2], t - 1) > 0
        /\ Position(wp[1], wp[2], t - 1)
             + Flow(wp[1], wp[2], "inflows", t)
             - Flow(wp[1], wp[2], "outflows", t) < 0
        /\ Ledger(wp[1], wp[2])[t].ending_position = 0

\* C2: ledger chaining.  The starting_position of period t+1 is the
\* ending_position of period t, and the starting_position of the first
\* period is the supplied starting inventory (tenths of a unit).
C2_LedgerChaining ==
    \A wp \in Pairs :
        LET l == Ledger(wp[1], wp[2])
        IN  /\ \A t \in 1..(Len(l) - 1) :
                  l[t + 1].starting_position = l[t].ending_position
            /\ Len(l) >= 1 =>
                  l[1].starting_position * 10 = starting_inventory[wp[1]][wp[2]]

\* C2 witness: a ledger of two periods whose position moved in both.
C2_Witness ==
    \E wp \in Pairs :
        LET l == Ledger(wp[1], wp[2])
        IN  /\ Len(l) >= 2
            /\ l[1].ending_position # l[1].starting_position
            /\ l[2].ending_position # l[2].starting_position
            /\ l[1].starting_position > 0

\* Both series of the pair are forecast by a fitted model.
BothModelled(w, p) ==
    /\ pc \notin {"train", "start"}
    /\ \A f \in Range(flow_types) : prophet_models[w][p][f]

\* C3 as stated: the recorded fields of every entry satisfy
\* net_flow = inflow - outflow, ending_position = max(0, starting_position
\* + net_flow), capacity_utilization = ending_position / capacity as a
\* percentage.  Stated for the pairs whose flows both come from a model,
\* where every flow is clamped to be non-negative.
C3_RecordedIdentities ==
    \A wp \in Pairs : \A t \in 1..Len(Ledger(wp[1], wp[2])) :
        LET e == Ledger(wp[1], wp[2])[t]
        IN  BothModelled(wp[1], wp[2]) =>
            /\ e.net_flow = e.inflow - e.outflow
            /\ e.ending_position = Max(0, e.starting_position + e.net_flow)
            /\ e.capacity_utilization =
                  UtilizationPct1(e.ending_position * 10,
                                  warehouse_capacities[wp[1]])

\* C3 amended: every recorded field is the rounding of the quantity the
\* contract prescribes on the unrounded values (net = inflow - outflow,
\* ending = max(0, starting + net) with no other cap, utilization =
\* ending / capacity in percent, to one decimal); the identities between
\* the recorded fields hold to within one unit; and within a warehouse a
\* larger recorded ending_position never has a smaller utilization.
C3_RoundedIdentities ==
    /\ \A wp \in Pairs : \A t \in 1..Len(Ledger(wp[1], wp[2])) :
        LET w        == wp[1]
            p        == wp[2]
            e        == Ledger(w, p)[t]
            inflow   == Flow(w, p, "inflows", t)
            outflow  == Flow(w, p, "outflows", t)
            starting == Position(w, p, t - 1)
            sum      == starting + (inflow - outflow)
            ending   == IF sum < 0 THEN 0 ELSE sum
        IN  /\ e.inflow = RoundUnits(inflow)
            /\ e.outflow = RoundUnits(outflow)
            /\ e.net_flow = RoundUnits(inflow - outflow)
            /\ e.starting_position = RoundUnits(starting)
            /\ e.ending_position = RoundUnits(ending)
            /\ e.capacity_utilization =
                  RoundHalfEven(ending * 100, warehouse_capacities[w])
            /\ Abs(e.net_flow - (e.inflow - e.outflow)) <= 1
            /\ Abs(e.ending_position
                     - Max(0, e.starting_position + e.net_flow)) <= 1
    /\ \A wp1 \in Pairs, wp2 \in Pairs :
         wp1[1] = wp2[1] =>
           \A t1 \in 1..Len(Ledger(wp1[1], wp1[2])),
              t2 \in 1..Len(Ledger(wp2[1], wp2[2])) :
                LET e1 == Ledger(wp1[1], wp1[2])[t1]
                    e2 == Ledger(wp2[1], wp2[2])[t2]
                IN  e1.ending_position < e2.ending_position
                      => e1.capacity_utilization <= e2.capacity_utilization

\* C3 witness: an entry whose recorded net_flow is not the difference of
\* its recorded inflow and outflow, and whose position was not clamped.
C3_Witness ==
    \E wp \in Pairs : \E t \in 1..Len(Ledger(wp[1], wp[2])) :
        LET e == Ledger(wp[1], wp[2])[t]
        IN  /\ BothModelled(wp[1], wp[2])
            /\ e.net_flow # e.inflow - e.outflow
            /\ e.ending_position > e.starting_position

\* C4: once a period with forecast inflow 0 and an outflow greater than the
\* inventory on hand has clamped the position, ending_position is 0 in that
\* period and in every later period up to which the inflow stays 0; and no
\* recorded or carried position is ever negative.
C4_ClampedStaysZero ==
    \A wp \in Pairs :
        LET w == wp[1]
            p == wp[2]
            l == Ledger(w, p)
        IN  /\ \A t \in 1..Len(l) :
                 (/\ Flow(w, p, "inflows", t) = 0
                  /\ Flow(w, p, "outflows", t) > Position(w, p, t - 1))
                 => /\ l[t].ending_position = 0
                    /\ \A u \in (t + 1)..Len(l) :
                          (\A s \in (t + 1)..u : Flow(w, p, "inflows", s) = 0)
                          => l[u].ending_position = 0
            /\ \A t \in 1..Len(l) :
                 l[t].starting_position >= 0 /\ l[t].ending_position >= 0
            /\ pc \notin {"train", "start"} => current_inventory[w][p] >= 0

\* C4 witness: a pair with inventory on hand, no inflow and an outflow above
\* its starting inventory in two consecutive periods, at 0 after both.
C4_Witness ==
    \E wp \in Pairs :
        LET w == wp[1]
            p == wp[2]
            l == Ledger(w, p)
        IN  /\ Len(l) >= 2
            /\ starting_inventory[w][p] > 0
            /\ \A t \in 1..2 :
                 /\ Flow(w, p, "inflows", t) = 0
                 /\ Flow(w, p, "outflows", t) > starting_inventory[w][p]
                 /\ l[t].ending_position = 0

\* C5 as stated: every inflow and outflow forecast that enters the ledger
\* is >= 0, whether it comes from a model or from the historical mean.
C5_FlowsNonNegative ==
    \A wp \in Pairs :
        /\ \A f \in Range(flow_types) :
             \A t \in 1..Len(monthly_forecasts[wp[1]][wp[2]][f]) :
                Flow(wp[1], wp[2], f, t) >= 0
        /\ \A t \in 1..Len(Ledger(wp[1], wp[2])) :
             /\ Ledger(wp[1], wp[2])[t].inflow >= 0
             /\ Ledger(wp[1], wp[2])[t].outflow >= 0

\* A series with neither a model nor any history.
NoModelNoHistory(w, p, f) ==
    /\ pc \notin {"train", "start"}
    /\ ~ prophet_models[w][p][f]
    /\ training_data[w][p][f].n = 0

ZeroForecast == [forecast |-> 0, lower |-> 0, upper |-> 0]

\* C6: a series with no model and no history is forecast 0 (point, lower,
\* upper) in every period, and the run never stops before it has returned
\* a ledger with an entry for every (warehouse, product, period).
C6_DegradedSeriesIsZero ==
    /\ \A wp \in Pairs : \A f \in Range(flow_types) :
         NoModelNoHistory(wp[1], wp[2], f) =>
            \A t \in 1..Len(monthly_forecasts[wp[1]][wp[2]][f]) :
               /\ monthly_forecasts[wp[1]][wp[2]][f][t] = ZeroForecast
               /\ forecasts[wp[1]][wp[2]][f][t] = ZeroForecast
    /\ pc = "done" \/ ENABLED Next
    /\ pc = "done" =>
         \A wp \in Pairs :
            /\ Len(Ledger(wp[1], wp[2])) = horizon_months
            /\ \A f \in Range(flow_types) :
                 Len(forecasts[wp[1]][wp[2]][f]) = horizon_months

\* C6 witness: a finished run one of whose pairs had neither models nor
\* history for both of its flows.
C6_Witness ==
    /\ pc = "done"
    /\ \E wp \in Pairs :
         /\ \A f \in Range(flow_types) : NoModelNoHistory(wp[1], wp[2], f)
         /\ Len(Ledger(wp[1], wp[2])) = horizon_months

\* The alerts raised for a warehouse and a month.
AlertsOf(w, t) ==
    { i \in 1..Len(alerts) : alerts[i].warehouse = w /\ alerts[i].date = t }

\* The sum of the positions of the products of a warehouse after month t.
WarehouseTotal(w, t) ==
    SumSeq([j \in 1..Len(products) |-> Position(w, products[j], t)])

\* C7: for every warehouse and processed month, the warehouse total is the
\* sum of its products' ending positions; above 90% of capacity there is
\* exactly one OVER_CAPACITY alert for that warehouse and month, HIGH above
\* 95% and MEDIUM otherwise; at 90% or below there is none.
C7_CapacityAlerts ==
    \A w \in Range(ForecastWarehouses) :
      \A t \in 1..Len(monthly_positions[w]) :
        LET total    == WarehouseTotal(w, t)
            capacity == warehouse_capacities[w] * 10
        IN  /\ monthly_positions[w][t].warehouse_total_after = total
            /\ IF total * 100 > 90 * capacity
               THEN /\ Cardinality(AlertsOf(w, t)) = 1
                    /\ \A i \in AlertsOf(w, t) :
                         /\ alerts[i].type = "OVER_CAPACITY"
                         /\ alerts[i].severity =
                              IF total * 100 > 95 * capacity
                              THEN "HIGH" ELSE "MEDIUM"
               ELSE AlertsOf(w, t) = {}

\* C7 witness: a warehouse at exactly 95% in one month (MEDIUM) and above
\* 95% in the next (HIGH).
C7_Witness ==
    \E w \in Range(ForecastWarehouses) :
        /\ Len(monthly_positions[w]) >= 2
        /\ WarehouseTotal(w, 1) * 100 = 95 * warehouse_capacities[w] * 10
        /\ \E i \in AlertsOf(w, 1) : alerts[i].severity = "MEDIUM"
        /\ \E i \in AlertsOf(w, 2) : alerts[i].severity = "HIGH"

\* The sum of one flow of the ledger entries of every warehouse, product
\* and period.
LedgerInflowTotal ==
    SumSeq([i \in 1..Len(ForecastWarehouses) |->
      SumSeq([j \in 1..Len(products) |->
        LET entries == Ledger(ForecastWarehouses[i], products[j])
        IN  SumSeq([t \in 1..Len(entries) |-> entries[t].inflow])])])

LedgerOutflowTotal ==
    SumSeq([i \in 1..Len(ForecastWarehouses) |->
      SumSeq([j \in 1..Len(products) |->
        LET entries == Ledger(ForecastWarehouses[i], products[j])
        IN  SumSeq([t \in 1..Len(entries) |-> entries[t].outflow])])])

\* The warehouses and months whose total is above 90% of capacity: the
\* alerts emitted during the run.
AlertedPeriods ==
    { wt \in Range(ForecastWarehouses) \X (1..horizon_months) :
        /\ wt[2] <= Len(monthly_positions[wt[1]])
        /\ WarehouseTotal(wt[1], wt[2]) * 100
              > 90 * warehouse_capacities[wt[1]] * 10 }

\* C18: network_projected_inflow is the sum of the inflow forecasts of the
\* ledger over all (warehouse, product, period) triples,
\* network_projected_outflow the same sum for outflows, network_net_position
\* is the inflow total minus the outflow total, and total_alerts is the
\* number of alerts emitted during the run.
C18_NetworkSummary ==
    pc = "done" =>
        /\ network_summary.network_projected_inflow = LedgerInflowTotal
        /\ network_summary.network_projected_outflow = LedgerOutflowTotal
        /\ network_summary.network_net_position
              = LedgerInflowTotal - LedgerOutflowTotal
        /\ network_summary.total_alerts = Len(alerts)
        /\ network_summary.total_alerts = Cardinality(AlertedPeriods)

\* A finished run with flows in more than one period, inflow and outflow
\* totals that differ, and an alert.
C18_Witness ==
    /\ pc = "done"
    /\ network_summary.network_projected_inflow > 0
    /\ network_summary.network_projected_outflow
          > network_summary.network_projected_inflow
    /\ network_summary.total_alerts > 0
    /\ \E pair \in Pairs :
          /\ Len(Ledger(pair[1], pair[2])) = horizon_months
          /\ Ledger(pair[1], pair[2])[1].inflow > 0
          /\ Ledger(pair[1], pair[2])[horizon_months].inflow > 0

-----------------------------------------------------------------------------
(* WarehouseCapacityOptimizer: inputs.                                     *)
(*                                                                         *)
(* Capacities and inventories of an analysis record are whole units and    *)
(* utilisations are HUNDREDTHS of a percent (the analyzer rounds them to   *)
(* 0.1%, a scenario stores them unrounded).  A transfer amount is a float  *)
(* in the source; it is modelled exactly, counting HUNDREDTHS of a unit,   *)
(* which is exact for capacities that are multiples of 100.  Volatility    *)
(* (a square root) and roi_percentage are left out of the records.         *)

\* How many of the warehouses of self.warehouses the optimizer is run on.
OptimizerWarehouseCount == 4

\* self.warehouses of the optimizer.
AllWarehouses == <<"Atlanta", "Nashville", "Chicago", "NY", "LA">>

OptimizerWarehouses == SubSeq(AllWarehouses, 1, OptimizerWarehouseCount)

\* What the loaded forecast may hold for one warehouse: its capacity and the
\* warehouse_total_after of its monthly positions (tenths of a unit).  A
\* warehouse without monthly positions is skipped by the analysis.
ForecastInputs ==
    { [capacity |-> 100,  totals |-> <<>>],
      [capacity |-> 100,  totals |-> <<200>>],
      [capacity |-> 100,  totals |-> <<600, 455>>],
      [capacity |-> 100,  totals |-> <<750>>],
      [capacity |-> 100,  totals |-> <<900, 950>>],
      [capacity |-> 1000, totals |-> <<3000>>],
      [capacity |-> 1000, totals |-> <<8000, 9000>>] }

\* The business rules of warehouse_assumptions.json: the optimal range
\* (fractions) in hundredths of a percent, max_transfer_percentage (a fraction)
\* in hundredths, minimum_transfer_size in whole units.
BusinessRules ==
    { [optimal_range           |-> <<6000, 8000>>,
       max_transfer_percentage |-> 50,
       minimum_transfer_size   |-> m] : m \in {5, 20, 5000} }

-----------------------------------------------------------------------------
(* analyze_capacity_utilization                                            *)

RECURSIVE MaxSeq(_)
MaxSeq(s) == IF Len(s) = 1 THEN s[1] ELSE Max(s[1], MaxSeq(Tail(s)))

RECURSIVE MinSeq(_)
MinSeq(s) == IF Len(s) = 1 THEN s[1] ELSE Min(s[1], MinSeq(Tail(s)))

\* np.polyfit(range(n), y, 1)[0] as the fraction num / den, den > 0:
\* the least-squares slope over x = 0 .. n-1.
SlopeNum(y) ==
    LET n == Len(y)
    IN  n * SumSeq([i \in 1..n |-> (i - 1) * y[i]])
          - SumSeq([i \in 1..n |-> i - 1]) * SumSeq(y)

SlopeDen(y) ==
    LET n  == Len(y)
        sx == SumSeq([i \in 1..n |-> i - 1])
    IN  n * SumSeq([i \in 1..n |-> (i - 1) * (i - 1)]) - sx * sx

\* Mutant: the score is not reset, it starts from the number of warehouses
\* analysed so far.
InitialRiskScoreCarried == Cardinality(DOMAIN capacity_analysis)

\* "risk_score = 0" at the start of every call.
InitialRiskScore == 0

\* Mutant: the second test of each rule is an "if", not an "elif".
AssessCapacityRiskCumulative(avg_num, avg_den, max_util, slope_num, slope_den) ==
    LET risk_score ==
            (IF avg_num > 8000 * avg_den THEN 3 ELSE 0)
            + (IF avg_num > 6000 * avg_den THEN 1 ELSE 0)
            + (IF max_util > 9500 THEN 3 ELSE 0)
            + (IF max_util > 8500 THEN 2 ELSE 0)
            + (IF slope_num > 100 * slope_den THEN 2 ELSE 0)
            + (IF slope_num > 50 * slope_den THEN 1 ELSE 0)
    IN  [level   |-> IF risk_score >= 5 THEN "HIGH"
                     ELSE IF risk_score >= 3 THEN "MEDIUM"
                     ELSE IF risk_score >= 1 THEN "LOW"
                     ELSE "MINIMAL",
         score   |-> risk_score,
         factors |-> <<"Low risk profile">>]

\* _assess_capacity_risk(avg_util, max_util, trend_slope), with avg_util =
\* avg_num / avg_den and trend_slope = slope_num / slope_den in hundredths
\* of a percent (denominators positive), max_util in hundredths of a percent.
AssessCapacityRisk(avg_num, avg_den, max_util, slope_num, slope_den) ==
    LET util_score  == IF avg_num > 8000 * avg_den THEN 3
                       ELSE IF avg_num > 6000 * avg_den THEN 1 ELSE 0
        peak_score  == IF max_util > 9500 THEN 3
                       ELSE IF max_util > 8500 THEN 2 ELSE 0
        trend_score == IF slope_num > 100 * slope_den THEN 2
                       ELSE IF slope_num > 50 * slope_den THEN 1 ELSE 0
        risk_score  == InitialRiskScore + util_score + peak_score + trend_score
        factors     ==
            (IF avg_num > 8000 * avg_den THEN <<"High average utilization">>
             ELSE IF avg_num > 6000 * avg_den THEN <<"Moderate utilization">>
             ELSE <<>>)
            \o (IF max_util > 9500 THEN <<"Near capacity peaks">>
                ELSE IF max_util > 8500 THEN <<"High peak utilization">>
                ELSE <<>>)
            \o (IF slope_num > 100 * slope_den THEN <<"Rapidly increasing trend">>
                ELSE IF slope_num > 50 * slope_den THEN <<"Increasing trend">>
                ELSE <<>>)
    IN  [level   |-> IF risk_score >= 5 THEN "HIGH"
                     ELSE IF risk_score >= 3 THEN "MEDIUM"
                     ELSE IF risk_score >= 1 THEN "LOW"
                     ELSE "MINIMAL",
         score   |-> risk_score,
         factors |-> IF factors # <<>> THEN factors
                     ELSE <<"Low risk profile">>]

\* The record analyze_capacity_utilization builds for one warehouse from
\* its capacity and the totals of its monthly positions.
AnalysisRecord(warehouse, max_capacity, totals) ==
    LET utilization_timeline ==
            [i \in 1..Len(totals) |->
                10 * UtilizationPct1(totals[i], max_capacity)]
        n                 == Len(utilization_timeline)
        max_utilization   == MaxSeq(utilization_timeline)
        min_utilization   == MinSeq(utilization_timeline)
        final_utilization == utilization_timeline[n]
        slope_num == IF n > 1 THEN SlopeNum(utilization_timeline) ELSE 0
        slope_den == IF n > 1 THEN SlopeDen(utilization_timeline) ELSE 1
        current_inventory_ == totals[n]
        available_capacity == max_capacity * 10 - current_inventory_
    IN  [warehouse_info |->
            [name                   |-> warehouse,
             max_capacity           |-> max_capacity,
             current_inventory      |-> RoundUnits(current_inventory_),
             available_capacity     |-> RoundUnits(available_capacity),
             available_capacity_pct |->
                 10 * UtilizationPct1(available_capacity, max_capacity)],
         utilization_metrics |->
            [average_utilization |->
                 RoundPct1(SumSeq(utilization_timeline), n),
             max_utilization     |-> max_utilization,
             min_utilization     |-> min_utilization,
             final_utilization   |-> final_utilization,
             utilization_range   |-> max_utilization - min_utilization],
         trend_analysis |->
            [trend_direction |->
                 IF slope_num > 50 * slope_den THEN "Increasing"
                 ELSE IF slope_num < (-50) * slope_den THEN "Decreasing"
                 ELSE "Stable",
             trend_slope     |-> RoundHalfEven(slope_num, slope_den)],
         risk_assessment |->
            AssessCapacityRisk(SumSeq(utilization_timeline), n,
                               max_utilization, slope_num, slope_den),
         timeline_data |->
            [utilization_pct  |-> utilization_timeline,
             inventory_levels |->
                 [i \in 1..Len(totals) |-> RoundUnits(totals[i])]]]

\* The nested dicts of the record of a warehouse.  Each is an object of
\* its own; the record of the warehouse refers to them.
Fields == {"warehouse_info", "utilization_metrics", "trend_analysis",
           "risk_assessment", "timeline_data"}

\* The identity of the dict analyze_capacity_utilization creates for a
\* field of a warehouse.
BaseId(w, f) == <<"base", w, f>>

\* The objects of an analysis as analyze_capacity_utilization creates them.
AllocatedHeap(analysis) ==
    [id \in { BaseId(w, f) : w \in DOMAIN analysis, f \in Fields } |->
        analysis[id[2]][id[3]]]

\* What the record of every warehouse refers to.
BaseRefs(analysis) ==
    [w \in DOMAIN analysis |-> [f \in Fields |-> BaseId(w, f)]]

\* The value of an analysis: every reference replaced by what the object
\* holds now.
Deref(h, refs) ==
    [w \in DOMAIN refs |-> [f \in Fields |-> h[refs[w][f]]]]

\* dict[key] = value on the object id.
SetItem(h, id, key, value) == [h EXCEPT ![id] = [@ EXCEPT ![key] = value]]

\* analyze_capacity_utilization: one record per warehouse that has monthly
\* positions.  capacity_analysis keeps the value returned; heap and
\* base_analysis hold the returned dicts themselves.
AnalyzeCapacityUtilization ==
    /\ pc = "loaded"
    /\ capacity_analysis' =
          [w \in { v \in DOMAIN warehouse_forecasts :
                     warehouse_forecasts[v] # <<>> } |->
             AnalysisRecord(w, optimizer_capacities[w], warehouse_forecasts[w])]
    /\ heap' = AllocatedHeap(capacity_analysis')
    /\ base_analysis' = BaseRefs(capacity_analysis')
    /\ pc' = "analyzed"
    /\ UNCHANGED <<warehouse_forecasts, optimizer_capacities, business_rules,
                   high_util_warehouses, low_util_warehouses,
                   transfer_opportunities>>
    /\ UNCHANGED <<forecast_vars, analyzer_vars, scenario_config,
                   scenario_results>>
    /\ UNCHANGED <<distance_vars, order_vars>>

-----------------------------------------------------------------------------
(* _calculate_optimal_transfer                                             *)

RECURSIVE GCD(_, _)
GCD(a, b) == IF b = 0 THEN a ELSE GCD(b, a % b)

LCM(a, b) == (a \div GCD(a, b)) * b

\* Mutant: every listed route has the factor 0.4.
DistanceFactorsShortHaul ==
    [p \in { <<"Atlanta", "Nashville">>, <<"Atlanta", "Chicago">>,
             <<"Atlanta", "NY">>, <<"Atlanta", "LA">>,
             <<"Nashville", "Chicago">>, <<"Nashville", "NY">>,
             <<"Nashville", "LA">>, <<"Chicago", "NY">>,
             <<"Chicago", "LA">>, <<"NY", "LA">> } |-> 4]

\* _get_distance_factor, in tenths.
DistanceFactors ==
    [p \in { <<"Atlanta", "Nashville">>, <<"Atlanta", "Chicago">>,
             <<"Atlanta", "NY">>, <<"Atlanta", "LA">>,
             <<"Nashville", "Chicago">>, <<"Nashville", "NY">>,
             <<"Nashville", "LA">>, <<"Chicago", "NY">>,
             <<"Chicago", "LA">>, <<"NY", "LA">> } |->
        CASE p = <<"Atlanta", "Nashville">>   -> 10
          [] p = <<"Atlanta", "Chicago">>     -> 15
          [] p = <<"Atlanta", "NY">>          -> 20
          [] p = <<"Atlanta", "LA">>          -> 30
          [] p = <<"Nashville", "Chicago">>   -> 12
          [] p = <<"Nashville", "NY">>        -> 18
          [] p = <<"Nashville", "LA">>        -> 25
          [] p = <<"Chicago", "NY">>          -> 15
          [] p = <<"Chicago", "LA">>          -> 22
          [] p = <<"NY", "LA">>               -> 35]

\* Mutant: only the key (source_wh, dest_wh) is looked up.
GetDistanceFactorOneWay(source_wh, dest_wh) ==
    IF <<source_wh, dest_wh>> \in DOMAIN DistanceFactors
    THEN DistanceFactors[<<source_wh, dest_wh>>]
    ELSE 20

GetDistanceFactor(source_wh, dest_wh) ==
    IF <<source_wh, dest_wh>> \in DOMAIN DistanceFactors
    THEN DistanceFactors[<<source_wh, dest_wh>>]
    ELSE IF <<dest_wh, source_wh>> \in DOMAIN DistanceFactors
    THEN DistanceFactors[<<dest_wh, source_wh>>]
    ELSE 20

\* _calculate_risk_reduction: new_utilization = new_num / new_den in
\* hundredths of a percent.
CalculateRiskReduction(source_data, new_num, new_den) ==
    LET new_risk_score == IF new_num > 8000 * new_den THEN 3
                          ELSE IF new_num > 6000 * new_den THEN 1 ELSE 0
    IN  Max(0, source_data.risk_assessment.score - new_risk_score)

\* Mutant: only the limits of the source bound the amount.
MaxTransferableSourceOnly(source_data, dest_data, rules) ==
    LET source_util == source_data.utilization_metrics.final_utilization
        source_inventory == source_data.warehouse_info.current_inventory
        source_capacity  == source_data.warehouse_info.max_capacity
        target_util == rules.optimal_range[2]
        source_excess == ((source_util - target_util) * source_capacity) \div 100
    IN  Min(source_inventory * rules.max_transfer_percentage, source_excess)

\* Mutant: the limits of the excess and of the deficit are left out of
\* max_transferable.
MaxTransferableUnbanded(source_data, dest_data, rules) ==
    Min(source_data.warehouse_info.current_inventory
            * rules.max_transfer_percentage,
        (dest_data.warehouse_info.max_capacity
            - dest_data.warehouse_info.current_inventory) * 100)

\* "Maximum transferable amount (don't exceed limits)", in hundredths of a
\* unit: the least of the share of the source inventory that may move, the
\* space available in the destination, the excess of the source over the
\* target and the deficit of the destination below it.
MaxTransferable(source_data, dest_data, rules) ==
    LET source_util == source_data.utilization_metrics.final_utilization
        dest_util   == dest_data.utilization_metrics.final_utilization
        source_inventory == source_data.warehouse_info.current_inventory
        dest_inventory   == dest_data.warehouse_info.current_inventory
        source_capacity  == source_data.warehouse_info.max_capacity
        dest_capacity    == dest_data.warehouse_info.max_capacity
        target_util == rules.optimal_range[2]
        source_excess == ((source_util - target_util) * source_capacity) \div 100
        dest_deficit  == ((target_util - dest_util) * dest_capacity) \div 100
    IN  Min(Min(source_inventory * rules.max_transfer_percentage,
                (dest_capacity - dest_inventory) * 100),
            Min(source_excess, dest_deficit))

\* Mutant: a transfer below the minimum size is kept.
DiscardSmallNever(recommended_transfer, min_transfer_size) == recommended_transfer

\* "Too small to be worth it": an amount (hundredths) below the minimum
\* transfer size (whole units) becomes 0.
DiscardSmall(recommended_transfer, min_transfer_size) ==
    IF recommended_transfer < min_transfer_size * 100
    THEN 0
    ELSE recommended_transfer

\* Mutant: the whole excess may move.
TransferQuantityFullExcess(source_data, dest_data, rules) ==
    LET source_util == source_data.utilization_metrics.final_utilization
        source_capacity == source_data.warehouse_info.max_capacity
        target_util == rules.optimal_range[2]
        source_excess == ((source_util - target_util) * source_capacity) \div 100
    IN  Max(0, Min(MaxTransferable(source_data, dest_data, rules), source_excess))

\* max(0, min(max_transferable, source_excess * 0.7)), in hundredths of a
\* unit: 70% of the excess at most, never negative.
TransferQuantity(source_data, dest_data, rules) ==
    LET source_util == source_data.utilization_metrics.final_utilization
        source_capacity == source_data.warehouse_info.max_capacity
        target_util == rules.optimal_range[2]
        source_excess == ((source_util - target_util) * source_capacity) \div 100
    IN  Max(0, Min(MaxTransferable(source_data, dest_data, rules),
                   (source_excess * 7) \div 10))

\* "Recommended transfer amount", in hundredths of a unit, 0 when below the
\* minimum size.
RecommendedTransfer(source_data, dest_data, rules) ==
    DiscardSmall(TransferQuantity(source_data, dest_data, rules),
                 rules.minimum_transfer_size)

\* The record _calculate_optimal_transfer returns.  Amounts of money are in
\* cents.
CalculateOptimalTransfer(source_wh, source_data, dest_wh, dest_data, rules) ==
    LET source_util == source_data.utilization_metrics.final_utilization
        dest_util   == dest_data.utilization_metrics.final_utilization
        source_inventory == source_data.warehouse_info.current_inventory
        dest_inventory   == dest_data.warehouse_info.current_inventory
        source_capacity  == source_data.warehouse_info.max_capacity
        dest_capacity    == dest_data.warehouse_info.max_capacity
        recommended_transfer == RecommendedTransfer(source_data, dest_data, rules)
        \* hundredths of a unit
        new_source_inventory == source_inventory * 100 - recommended_transfer
        new_dest_inventory   == dest_inventory * 100 + recommended_transfer
        \* source_util - new_source_util = source_drop / source_capacity and
        \* new_dest_util - dest_util = dest_rise / dest_capacity, in
        \* hundredths of a percent
        source_drop == source_util * source_capacity - new_source_inventory * 100
        dest_rise   == new_dest_inventory * 100 - dest_util * dest_capacity
        l           == LCM(source_capacity, dest_capacity)
        improvement == source_drop * (l \div source_capacity)
                         + dest_rise * (l \div dest_capacity)
        distance_factor == GetDistanceFactor(source_wh, dest_wh)
    IN  [transfer_id           |-> <<source_wh, "to", dest_wh>>,
         source_warehouse      |-> source_wh,
         destination_warehouse |-> dest_wh,
         recommended_transfer  |-> RoundHalfEven(recommended_transfer, 100),
         current_state |->
            [source_utilization |-> RoundPct1(source_util, 1),
             dest_utilization   |-> RoundPct1(dest_util, 1),
             source_inventory   |-> source_inventory,
             dest_inventory     |-> dest_inventory],
         projected_state |->
            [source_utilization |->
                 RoundPct1(new_source_inventory * 100, source_capacity),
             dest_utilization   |->
                 RoundPct1(new_dest_inventory * 100, dest_capacity),
             source_inventory   |-> RoundHalfEven(new_source_inventory, 100),
             dest_inventory     |-> RoundHalfEven(new_dest_inventory, 100)],
         impact_metrics |->
            [utilization_improvement |-> RoundPct1(improvement, l),
             risk_reduction          |->
                 CalculateRiskReduction(source_data, new_source_inventory * 100,
                                        source_capacity),
             source_util_change      |->
                 RoundPct1(-source_drop, source_capacity),
             dest_util_change        |->
                 RoundPct1(dest_rise, dest_capacity)],
         cost_analysis |->
            [estimated_transfer_cost   |->
                 RoundHalfEven(recommended_transfer * distance_factor, 100),
             estimated_storage_savings |-> RoundHalfEven(source_drop, 2000),
             net_benefit               |->
                 RoundHalfEven(source_drop
                                 - 20 * recommended_transfer * distance_factor,
                               2000)],
         priority |-> IF improvement > 1000 * l THEN "HIGH"
                      ELSE IF improvement > 500 * l THEN "MEDIUM"
                      ELSE "LOW",
         urgency  |-> IF source_util > 9000 THEN "IMMEDIATE" ELSE "PLANNED"]

-----------------------------------------------------------------------------
(* identify_transfer_opportunities                                         *)

\* sorted(..., reverse=True) and list.sort(reverse=True): descending by key,
\* elements of equal key in their original order.  keys[i] is the key of
\* s[i].
SortDescending(s, keys) ==
    LET n == Len(s)
        rank(i) == 1 + Cardinality({ j \in 1..n :
                                       \/ keys[j] > keys[i]
                                       \/ keys[j] = keys[i] /\ j < i })
    IN  [r \in 1..n |-> s[CHOOSE i \in 1..n : rank(i) = r]]

\* capacity_analysis.items(): the warehouses in insertion order.
AnalysisItems(analysis) ==
    SelectSeq(AllWarehouses, LAMBDA w : w \in DOMAIN analysis)

WarehousesByUtil(analysis) ==
    LET items == AnalysisItems(analysis)
    IN  SortDescending(items,
            [i \in 1..Len(items) |->
                analysis[items[i]].utilization_metrics.final_utilization])

\* Mutant: a source candidate may be any of the top three.
IsHighUtilizationAlways(data) == TRUE

IsHighUtilization(data) == data.utilization_metrics.final_utilization > 7000

\* Mutant: a destination candidate must be below 20%.
IsLowUtilizationUnder20(data) ==
    data.utilization_metrics.final_utilization < 2000

IsLowUtilization(data) == data.utilization_metrics.final_utilization < 5000

\* Mutant: every warehouse above 70% is a candidate source.
HighUtilWarehousesUnsliced(analysis) ==
    SelectSeq(WarehousesByUtil(analysis),
              LAMBDA w : IsHighUtilization(analysis[w]))

\* warehouses_by_util[:3] above 70%.
HighUtilWarehouses(analysis) ==
    LET by_util == WarehousesByUtil(analysis)
    IN  SelectSeq(SubSeq(by_util, 1, Min(3, Len(by_util))),
                  LAMBDA w : IsHighUtilization(analysis[w]))

\* warehouses_by_util[-3:] below 50%.
LowUtilWarehouses(analysis) ==
    LET by_util == WarehousesByUtil(analysis)
    IN  SelectSeq(SubSeq(by_util, Max(1, Len(by_util) - 2), Len(by_util)),
                  LAMBDA w : IsLowUtilization(analysis[w]))

\* The pairs the two loops visit, in order, without the pairs skipped by
\* "continue".
CandidatePairs(analysis) ==
    LET high == HighUtilWarehouses(analysis)
        low  == LowUtilWarehouses(analysis)
        all  == [k \in 1..(Len(high) * Len(low)) |->
                    <<high[((k - 1) \div Len(low)) + 1],
                      low[((k - 1) % Len(low)) + 1]>>]
    IN  SelectSeq(all, LAMBDA pair : pair[1] # pair[2])

\* Mutant: a transfer analysis is kept whatever its amount.
IsRecommendedAny(t) == TRUE

\* "if transfer_analysis['recommended_transfer'] > 0".
IsRecommended(t) == t.recommended_transfer > 0

\* The transfer analyses appended by the loops, in the order of the visits.
AppendedTransfers(analysis, rules) ==
    LET pairs     == CandidatePairs(analysis)
        analyses  == [k \in 1..Len(pairs) |->
                        CalculateOptimalTransfer(pairs[k][1], analysis[pairs[k][1]],
                                                 pairs[k][2], analysis[pairs[k][2]],
                                                 rules)]
    IN  SelectSeq(analyses, IsRecommended)

\* Mutant: the list is returned in the order of the visits.
IdentifyTransfersUnsorted(analysis, rules) == AppendedTransfers(analysis, rules)

IdentifyTransfers(analysis, rules) ==
    LET pairs     == CandidatePairs(analysis)
        analyses  == [k \in 1..Len(pairs) |->
                        CalculateOptimalTransfer(pairs[k][1], analysis[pairs[k][1]],
                                                 pairs[k][2], analysis[pairs[k][2]],
                                                 rules)]
        kept      == SelectSeq(analyses, IsRecommended)
    IN  SortDescending(kept,
            [k \in 1..Len(kept) |->
                kept[k].impact_metrics.utilization_improvement])

\* The business rules _calculate_optimal_transfer reads are not all there:
\* reading them raises KeyError.
RulesMissing(rules) ==
    ~ ({"optimal_range", "max_transfer_percentage", "minimum_transfer_size"}
         \subseteq DOMAIN rules)

\* identify_transfer_opportunities raises when _calculate_optimal_transfer
\* is called, that is for the first candidate pair, without its rules.
IdentifyRaises(analysis, rules) ==
    CandidatePairs(analysis) # <<>> /\ RulesMissing(rules)

IdentifyTransferOpportunities ==
    /\ pc = "analyzed"
    /\ high_util_warehouses' = HighUtilWarehouses(capacity_analysis)
    /\ low_util_warehouses' = LowUtilWarehouses(capacity_analysis)
    /\ IF IdentifyRaises(capacity_analysis, business_rules)
       THEN /\ transfer_opportunities' = transfer_opportunities
            /\ pc' = "error"
       ELSE /\ transfer_opportunities' =
                  IdentifyTransfers(capacity_analysis, business_rules)
            /\ pc' = "transfers"
    /\ UNCHANGED <<warehouse_forecasts, optimizer_capacities, business_rules,
                   capacity_analysis>>
    /\ UNCHANGED <<forecast_vars, analyzer_vars, scenario_vars>>
    /\ UNCHANGED <<distance_vars, order_vars>>

\* The optimizer after load_existing_forecasts: capacities, forecasts and
\* business rules are loaded, nothing is analysed yet.
InitOptimizer ==
    /\ pc = "loaded"
    /\ \E input \in [Range(OptimizerWarehouses) -> ForecastInputs] :
          /\ optimizer_capacities =
                [w \in Range(OptimizerWarehouses) |-> input[w].capacity]
          /\ warehouse_forecasts =
                [w \in Range(OptimizerWarehouses) |-> input[w].totals]
    /\ business_rules \in BusinessRules
    /\ capacity_analysis = <<>>
    /\ high_util_warehouses = <<>>
    /\ low_util_warehouses = <<>>
    /\ transfer_opportunities = <<>>
    /\ training_data = <<>>
    /\ prophet_models = <<>>
    /\ starting_inventory = <<>>
    /\ warehouse_capacities = <<>>
    /\ month = 0
    /\ wh = 0
    /\ current_inventory = <<>>
    /\ monthly_forecasts = <<>>
    /\ forecasts = <<>>
    /\ rolling_inventory = <<>>
    /\ monthly_positions = <<>>
    /\ alerts = <<>>
    /\ network_summary = <<>>
    /\ AnalyzerIdle
    /\ DistanceIdle
    /\ OrderIdle
    /\ ScenarioIdle

NextOptimizer ==
    \/ AnalyzeCapacityUtilization
    \/ IdentifyTransferOpportunities

SpecTransfer == InitOptimizer /\ [][NextOptimizer]_vars

-----------------------------------------------------------------------------
(* Properties of the transfer optimizer                                    *)

Recommendations == Range(transfer_opportunities)

\* The recommendation the optimizer returned for the pair, if any.
RecommendationsFor(source_wh, dest_wh) ==
    { t \in Recommendations : /\ t.source_warehouse = source_wh
                              /\ t.destination_warehouse = dest_wh }

\* The quantity computed for a pair before the minimum size is applied, in
\* hundredths of a unit.
PairQuantity(source_wh, dest_wh) ==
    TransferQuantity(capacity_analysis[source_wh], capacity_analysis[dest_wh],
                     business_rules)

\* C8: every recommendation returned by identify_transfer_opportunities has
\* recommended_transfer >= minimum_transfer_size, and a candidate pair whose
\* computed quantity is below the minimum produces no recommendation.
C8_MinimumTransferSize ==
    pc = "transfers" =>
        /\ \A t \in Recommendations :
              t.recommended_transfer >= business_rules.minimum_transfer_size
        /\ \A source_wh \in Range(high_util_warehouses),
              dest_wh \in Range(low_util_warehouses) :
              PairQuantity(source_wh, dest_wh)
                  < business_rules.minimum_transfer_size * 100
              => RecommendationsFor(source_wh, dest_wh) = {}

\* A run that returned a recommendation and also visited a pair whose
\* positive quantity was below the minimum size.
C8_Witness ==
    /\ pc = "transfers"
    /\ Recommendations # {}
    /\ \E source_wh \in Range(high_util_warehouses),
          dest_wh \in Range(low_util_warehouses) :
          /\ PairQuantity(source_wh, dest_wh) > 0
          /\ PairQuantity(source_wh, dest_wh)
                < business_rules.minimum_transfer_size * 100
          /\ RecommendationsFor(source_wh, dest_wh) = {}

\* C9: for every recommendation, recommended_transfer is at most the
\* destination's max_capacity minus its current_inventory, and the projected
\* destination inventory does not exceed the destination's capacity.
C9_DestinationCapacity ==
    pc = "transfers" =>
        \A t \in Recommendations :
            LET dest_info ==
                    capacity_analysis[t.destination_warehouse].warehouse_info
            IN  /\ t.recommended_transfer
                      <= dest_info.max_capacity - dest_info.current_inventory
                /\ t.projected_state.dest_inventory <= dest_info.max_capacity

\* A recommendation whose source could give more (70% of its excess) than
\* the destination has room for.
C9_Witness ==
    /\ pc = "transfers"
    /\ \E t \in Recommendations :
          LET source_data == capacity_analysis[t.source_warehouse]
              dest_info   ==
                  capacity_analysis[t.destination_warehouse].warehouse_info
              source_excess ==
                  ((source_data.utilization_metrics.final_utilization
                      - business_rules.optimal_range[2])
                   * source_data.warehouse_info.max_capacity) \div 100
          IN  /\ (source_excess * 7) \div 10
                    > (dest_info.max_capacity - dest_info.current_inventory) * 100
              /\ t.recommended_transfer > 0

\* C10: the candidate source set and the candidate destination set are
\* disjoint, also when fewer than six warehouses make the top-3 and bottom-3
\* slices overlap, and no recommendation has source_warehouse equal to
\* destination_warehouse.
C10_SourceNotDestination ==
    pc = "transfers" =>
        /\ Range(high_util_warehouses) \cap Range(low_util_warehouses) = {}
        /\ \A t \in Recommendations :
              t.source_warehouse # t.destination_warehouse

\* Fewer than six warehouses, the two slices share a warehouse, both
\* candidate sets are non-empty and a transfer is recommended.
C10_Witness ==
    /\ pc = "transfers"
    /\ LET by_util == WarehousesByUtil(capacity_analysis)
           n       == Len(by_util)
       IN  /\ n < 6
           /\ Range(SubSeq(by_util, 1, Min(3, n)))
                 \cap Range(SubSeq(by_util, Max(1, n - 2), n)) # {}
    /\ high_util_warehouses # <<>>
    /\ low_util_warehouses # <<>>
    /\ Recommendations # {}

\* The optimizer run on all of self.warehouses, so that the top-3 and the
\* bottom-3 slices leave warehouses out.
InitSelection ==
    /\ pc = "loaded"
    /\ \E input \in [Range(AllWarehouses) -> ForecastInputs] :
          /\ optimizer_capacities =
                [w \in Range(AllWarehouses) |-> input[w].capacity]
          /\ warehouse_forecasts =
                [w \in Range(AllWarehouses) |-> input[w].totals]
    /\ business_rules \in { r \in BusinessRules : r.minimum_transfer_size = 5 }
    /\ capacity_analysis = <<>>
    /\ high_util_warehouses = <<>>
    /\ low_util_warehouses = <<>>
    /\ transfer_opportunities = <<>>
    /\ ForecastIdle
    /\ AnalyzerIdle
    /\ DistanceIdle
    /\ OrderIdle
    /\ ScenarioIdle

SpecSelection == InitSelection /\ [][NextOptimizer]_vars

FinalUtilization(w) == capacity_analysis[w].utilization_metrics.final_utilization

\* C21: every source of a recommendation is among the three warehouses with
\* the highest final utilization (at most two warehouses are strictly
\* higher) and is above 70%; every destination is among the three with the
\* lowest final utilization (at most two are strictly lower) and is below
\* 50%; a warehouse outside the two candidate lists never appears in a
\* recommendation.
C21_CandidateSelection ==
    pc = "transfers" =>
        \A t \in Recommendations :
            /\ t.source_warehouse \in Range(high_util_warehouses)
            /\ FinalUtilization(t.source_warehouse) > 7000
            /\ Cardinality({ w \in DOMAIN capacity_analysis :
                   FinalUtilization(w) > FinalUtilization(t.source_warehouse) })
                  <= 2
            /\ t.destination_warehouse \in Range(low_util_warehouses)
            /\ FinalUtilization(t.destination_warehouse) < 5000
            /\ Cardinality({ w \in DOMAIN capacity_analysis :
                   FinalUtilization(w)
                      < FinalUtilization(t.destination_warehouse) })
                  <= 2

\* Five warehouses are analysed, a warehouse above the target (80%) is left
\* out of the sources because three are higher, and a transfer is
\* recommended.
C21_Witness ==
    /\ pc = "transfers"
    /\ Cardinality(DOMAIN capacity_analysis) = 5
    /\ \E w \in DOMAIN capacity_analysis :
          /\ FinalUtilization(w) > 8000
          /\ w \notin Range(high_util_warehouses)
          /\ \A t \in Recommendations : t.source_warehouse # w
    /\ Recommendations # {}

\* Forecasts in which each limit of the quantity binds for some pair: a
\* source far above its capacity (half of its inventory is less than 70% of
\* its excess), a source just above the target, small and large
\* destinations.
QuantityInputs ==
    { [capacity |-> 100,  totals |-> <<>>],
      [capacity |-> 100,  totals |-> <<200>>],
      [capacity |-> 100,  totals |-> <<900, 950>>],
      [capacity |-> 100,  totals |-> <<2850>>],
      [capacity |-> 100,  totals |-> <<2870>>],
      [capacity |-> 1000, totals |-> <<3000>>],
      [capacity |-> 1000, totals |-> <<8000, 9000>>] }

InitQuantity ==
    /\ pc = "loaded"
    /\ \E input \in [{"Atlanta", "Nashville", "Chicago"} -> QuantityInputs] :
          /\ optimizer_capacities = [w \in DOMAIN input |-> input[w].capacity]
          /\ warehouse_forecasts = [w \in DOMAIN input |-> input[w].totals]
    /\ business_rules \in BusinessRules
    /\ capacity_analysis = <<>>
    /\ high_util_warehouses = <<>>
    /\ low_util_warehouses = <<>>
    /\ transfer_opportunities = <<>>
    /\ ForecastIdle
    /\ AnalyzerIdle
    /\ DistanceIdle
    /\ OrderIdle
    /\ ScenarioIdle

SpecQuantity == InitQuantity /\ [][NextOptimizer]_vars

\* The quantities of the formula for a pair, in hundredths of a unit:
\* source_excess = (source_util - target) / 100 x source_capacity,
\* dest_deficit = (target - dest_util) / 100 x dest_capacity, the four
\* limits of max_transferable and 0.7 x source_excess.
SourceExcess(source_wh) ==
    ((FinalUtilization(source_wh) - business_rules.optimal_range[2])
        * capacity_analysis[source_wh].warehouse_info.max_capacity) \div 100

DestDeficit(dest_wh) ==
    ((business_rules.optimal_range[2] - FinalUtilization(dest_wh))
        * capacity_analysis[dest_wh].warehouse_info.max_capacity) \div 100

SourceShare(source_wh) ==
    capacity_analysis[source_wh].warehouse_info.current_inventory
        * business_rules.max_transfer_percentage

DestSpace(dest_wh) ==
    (capacity_analysis[dest_wh].warehouse_info.max_capacity
        - capacity_analysis[dest_wh].warehouse_info.current_inventory) * 100

FormulaQuantity(source_wh, dest_wh) ==
    LET limits == {SourceShare(source_wh), DestSpace(dest_wh),
                   SourceExcess(source_wh), DestDeficit(dest_wh),
                   (SourceExcess(source_wh) * 7) \div 10}
        least  == CHOOSE x \in limits : \A y \in limits : x <= y
    IN  IF least < 0 THEN 0 ELSE least

VisitedPairs ==
    { pair \in Range(high_util_warehouses) \X Range(low_util_warehouses) :
        pair[1] # pair[2] }

\* C22 as stated: for every pair the recommendation carries exactly the
\* quantity of the formula, and it never moves more than max_transfer_pct
\* of the source inventory.
C22_QuantityExact ==
    pc = "transfers" =>
        /\ \A pair \in VisitedPairs :
              FormulaQuantity(pair[1], pair[2]) > 0 =>
                 \E t \in RecommendationsFor(pair[1], pair[2]) :
                    t.recommended_transfer * 100
                        = FormulaQuantity(pair[1], pair[2])
        /\ \A t \in Recommendations :
              t.recommended_transfer * 100 <= SourceShare(t.source_warehouse)

\* C22: for every (source, destination) pair visited, the quantity is
\* q = max(0, min(max_transferable, 0.7 x source_excess)) with
\* max_transferable = min(source_inventory x max_transfer_pct,
\* dest_capacity - dest_inventory, source_excess, dest_deficit).  A pair
\* with q below minimum_transfer_size gets no recommendation; otherwise it
\* gets exactly one, which reports round(q) and projects the inventories
\* moved by q itself.  The amount moved is at most max_transfer_pct of the
\* source inventory, the amount reported at most that rounded.
C22_QuantityRounded ==
    pc = "transfers" =>
        /\ \A pair \in VisitedPairs :
              LET q == FormulaQuantity(pair[1], pair[2])
                  source_inventory ==
                      capacity_analysis[pair[1]].warehouse_info.current_inventory
              IN  IF q < business_rules.minimum_transfer_size * 100 \/ q = 0
                  THEN RecommendationsFor(pair[1], pair[2]) = {}
                  ELSE /\ Cardinality(RecommendationsFor(pair[1], pair[2])) = 1
                       /\ \A t \in RecommendationsFor(pair[1], pair[2]) :
                             /\ t.recommended_transfer = RoundHalfEven(q, 100)
                             /\ t.projected_state.source_inventory =
                                   RoundHalfEven(source_inventory * 100 - q, 100)
                             /\ q <= SourceShare(pair[1])
                             /\ t.recommended_transfer * 100
                                   <= SourceShare(pair[1]) + 50
        /\ \A t \in Recommendations :
              <<t.source_warehouse, t.destination_warehouse>> \in VisitedPairs

\* Recommendations in which each limit decides the quantity: the share of
\* the source inventory (reported half a unit above it), 70% of the excess
\* (a quantity that is not a whole number), and the deficit of the
\* destination; and a pair dropped for its size.
C22_Witness ==
    /\ pc = "transfers"
    /\ \E t \in Recommendations :
          /\ FormulaQuantity(t.source_warehouse, t.destination_warehouse)
                = SourceShare(t.source_warehouse)
          /\ t.recommended_transfer * 100 > SourceShare(t.source_warehouse)
    /\ \E pair \in VisitedPairs :
          /\ FormulaQuantity(pair[1], pair[2]) > 0
          /\ RecommendationsFor(pair[1], pair[2]) = {}

\* A recommendation decided by 70% of the excess, 10.5 units reported as 10,
\* next to one decided by the deficit of its destination.
C22_ExcessWitness ==
    /\ pc = "transfers"
    /\ \E t \in Recommendations :
          /\ FormulaQuantity(t.source_warehouse, t.destination_warehouse) = 1050
          /\ SourceExcess(t.source_warehouse) = 1500
          /\ t.recommended_transfer = 10
    /\ \E t \in Recommendations :
          /\ FormulaQuantity(t.source_warehouse, t.destination_warehouse)
                = DestDeficit(t.destination_warehouse)
          /\ DestDeficit(t.destination_warehouse)
                < (SourceExcess(t.source_warehouse) * 7) \div 10

\* The end-to-end example: A = Atlanta and B = Nashville are the only
\* warehouses with positions, both of capacity 100,000, A holding 90,000
\* (90%) and B 20,000 (20%); target 80%, max_transfer_percentage 50%,
\* minimum_transfer_size 5,000.
\* The forecasts of the two-warehouse example and of its neighbours: both
\* warehouses have capacity 100,000.
ExampleInputs ==
    { [capacity |-> 100000, totals |-> <<t>>] :
        t \in {200000, 400000, 750000, 900000, 1000000} }

InitExample ==
    /\ pc = "loaded"
    /\ \E input \in [{"Atlanta", "Nashville"} -> ExampleInputs] :
          /\ optimizer_capacities =
                [w \in Range(OptimizerWarehouses) |->
                    IF w \in DOMAIN input THEN input[w].capacity ELSE 100]
          /\ warehouse_forecasts =
                [w \in Range(OptimizerWarehouses) |->
                    IF w \in DOMAIN input THEN input[w].totals ELSE <<>>]
    /\ business_rules \in BusinessRules
    /\ capacity_analysis = <<>>
    /\ high_util_warehouses = <<>>
    /\ low_util_warehouses = <<>>
    /\ transfer_opportunities = <<>>
    /\ ForecastIdle
    /\ AnalyzerIdle
    /\ DistanceIdle
    /\ OrderIdle
    /\ ScenarioIdle

SpecExample == InitExample /\ [][NextOptimizer]_vars

ExampleNetwork ==
    /\ optimizer_capacities["Atlanta"] = 100000
    /\ warehouse_forecasts["Atlanta"] = <<900000>>
    /\ optimizer_capacities["Nashville"] = 100000
    /\ warehouse_forecasts["Nashville"] = <<200000>>
    /\ \A w \in Range(OptimizerWarehouses) \ {"Atlanta", "Nashville"} :
          warehouse_forecasts[w] = <<>>
    /\ business_rules = [optimal_range           |-> <<6000, 8000>>,
                         max_transfer_percentage |-> 50,
                         minimum_transfer_size   |-> 5000]

\* C11: in the example identify_transfer_opportunities recommends a nonzero
\* transfer from A to B whose projected utilization of A is strictly lower
\* and of B strictly higher than before.
C11_ExampleTransfer ==
    (pc = "transfers" /\ ExampleNetwork) =>
        \E t \in RecommendationsFor("Atlanta", "Nashville") :
            /\ t.recommended_transfer > 0
            /\ t.projected_state.source_utilization
                  < t.current_state.source_utilization
            /\ t.projected_state.dest_utilization
                  > t.current_state.dest_utilization

\* The example has run: 7,000 units from A to B, A at 83% and B at 27%.
C11_Witness ==
    /\ pc = "transfers"
    /\ ExampleNetwork
    /\ Len(transfer_opportunities) = 1
    /\ transfer_opportunities[1].source_warehouse = "Atlanta"
    /\ transfer_opportunities[1].destination_warehouse = "Nashville"
    /\ transfer_opportunities[1].recommended_transfer = 7000
    /\ transfer_opportunities[1].current_state.source_utilization = 9000
    /\ transfer_opportunities[1].current_state.dest_utilization = 2000
    /\ transfer_opportunities[1].projected_state.source_utilization = 8300
    /\ transfer_opportunities[1].projected_state.dest_utilization = 2700
    /\ transfer_opportunities[1].impact_metrics.utilization_improvement = 1400
    /\ transfer_opportunities[1].cost_analysis.estimated_transfer_cost = 70000
    /\ transfer_opportunities[1].cost_analysis.estimated_storage_savings = 35000
    /\ transfer_opportunities[1].cost_analysis.net_benefit = -35000

\* C24: the list returned by identify_transfer_opportunities is ordered by
\* utilization improvement descending: of every two consecutive
\* recommendations the earlier one's utilization_improvement is at least
\* the later one's.
C24_SortedByImprovement ==
    pc = "transfers" =>
        \A k \in 1..(Len(transfer_opportunities) - 1) :
            transfer_opportunities[k].impact_metrics.utilization_improvement
                >= transfer_opportunities[k + 1].impact_metrics.utilization_improvement

\* The loops appended a recommendation of smaller improvement before one of
\* larger improvement, and the list returned has them the other way round.
C24_Witness ==
    /\ pc = "transfers"
    /\ Len(transfer_opportunities) >= 2
    /\ transfer_opportunities[1].impact_metrics.utilization_improvement
          > transfer_opportunities[Len(transfer_opportunities)]
                .impact_metrics.utilization_improvement
    /\ LET appended == AppendedTransfers(capacity_analysis, business_rules)
       IN  /\ appended # transfer_opportunities
           /\ Range(appended) = Range(transfer_opportunities)
           /\ Len(appended) = Len(transfer_opportunities)

\* "Volume discounts" of _estimate_shipping_cost of the allocation engine,
\* in percent, for a quantity in hundredths of a unit.
VolumeDiscount(quantity) ==
    IF quantity > 1000000 THEN 85
    ELSE IF quantity > 500000 THEN 90
    ELSE 100

\* The quantity a recommendation moves, in hundredths of a unit.
MovedQuantity(t) ==
    RecommendedTransfer(capacity_analysis[t.source_warehouse],
                        capacity_analysis[t.destination_warehouse],
                        business_rules)

\* C23: the transfer cost estimate of every recommendation is quantity x
\* base_cost_per_unit (0.10) x distance_factor x volume_discount, the volume
\* discount having tiers at 5,000 and 10,000 units (cents, rounded).
C23_CostHasVolumeDiscount ==
    pc = "transfers" =>
        \A t \in Recommendations :
            t.cost_analysis.estimated_transfer_cost =
                RoundHalfEven(MovedQuantity(t)
                                * GetDistanceFactor(t.source_warehouse,
                                                    t.destination_warehouse)
                                * VolumeDiscount(MovedQuantity(t)),
                              10000)

\* What the estimate is: quantity x 0.10 x distance_factor at every size.
C23_CostIsLinear ==
    pc = "transfers" =>
        \A t \in Recommendations :
            t.cost_analysis.estimated_transfer_cost =
                RoundHalfEven(MovedQuantity(t)
                                * GetDistanceFactor(t.source_warehouse,
                                                    t.destination_warehouse),
                              100)

-----------------------------------------------------------------------------
(* _get_distance_factor as a function of its arguments                     *)

\* The names the function is called with: the warehouses of the table and
\* two names it does not hold.
DistanceNames == Range(AllWarehouses) \cup {"Dallas", "Boston"}

InitDistance ==
    /\ pc = "distance"
    /\ distance_query \in DistanceNames \X DistanceNames
    /\ distance_result = <<>>
    /\ warehouse_forecasts = <<>>
    /\ optimizer_capacities = <<>>
    /\ business_rules = <<>>
    /\ capacity_analysis = <<>>
    /\ high_util_warehouses = <<>>
    /\ low_util_warehouses = <<>>
    /\ transfer_opportunities = <<>>
    /\ ForecastIdle
    /\ AnalyzerIdle
    /\ OrderIdle
    /\ ScenarioIdle

\* _get_distance_factor(a, b)
GetForward ==
    /\ pc = "distance"
    /\ distance_result' =
          <<GetDistanceFactor(distance_query[1], distance_query[2])>>
    /\ pc' = "forward"
    /\ UNCHANGED <<distance_query, forecast_vars, optimizer_vars,
                   analyzer_vars, scenario_vars, order_vars>>

\* _get_distance_factor(b, a)
GetBackward ==
    /\ pc = "forward"
    /\ distance_result' =
          Append(distance_result,
                 GetDistanceFactor(distance_query[2], distance_query[1]))
    /\ pc' = "backward"
    /\ UNCHANGED <<distance_query, forecast_vars, optimizer_vars,
                   analyzer_vars, scenario_vars, order_vars>>

NextDistance == GetForward \/ GetBackward

SpecDistance == InitDistance /\ [][NextDistance]_vars

\* C25: the distance factor is symmetric and total: for every ordered pair
\* of names _get_distance_factor(a, b) = _get_distance_factor(b, a) and is
\* at least 1.0, and for a pair the table does not hold (an unknown
\* warehouse name, or a warehouse paired with itself) the result is 2.0.
C25_DistanceSymmetric ==
    pc = "backward" =>
        /\ distance_result[1] = distance_result[2]
        /\ distance_result[1] >= 10
        /\ ( \/ distance_query[1] \notin Range(AllWarehouses)
             \/ distance_query[2] \notin Range(AllWarehouses)
             \/ distance_query[1] = distance_query[2] )
           => distance_result[1] = 20

\* The factor of a pair stored in the table as (b, a), asked as (a, b) and
\* as (b, a): 3.5 both ways.
C25_Witness ==
    /\ pc = "backward"
    /\ distance_query = <<"LA", "NY">>
    /\ distance_result = <<35, 35>>

\* An unknown name: 2.0 both ways.
C25_UnknownWitness ==
    /\ pc = "backward"
    /\ distance_query = <<"Dallas", "Atlanta">>
    /\ distance_result = <<20, 20>>

-----------------------------------------------------------------------------
(* _assess_capacity_risk as a function of its arguments                    *)

\* Values around every threshold of the rules, in hundredths of a percent
\* (per month for the slope).
RiskUtilizations == {0, 6000, 6001, 8000, 8001, 8500, 8501, 9500, 9501, 12000}

RiskSlopes == {-100, 0, 50, 51, 100, 101}

\* A call of _assess_capacity_risk: the peak is not below the mean.
InitRisk ==
    /\ pc = "assess"
    /\ risk_input \in { r \in [avg_util    : RiskUtilizations,
                               max_util    : RiskUtilizations,
                               trend_slope : RiskSlopes] :
                          r.avg_util <= r.max_util }
    /\ risk_result = <<>>
    /\ analysis_order = <<>>
    /\ analysis_step = 0
    /\ DistanceIdle
    /\ OrderIdle
    /\ warehouse_forecasts = <<>>
    /\ optimizer_capacities = <<>>
    /\ business_rules = <<>>
    /\ capacity_analysis = <<>>
    /\ high_util_warehouses = <<>>
    /\ low_util_warehouses = <<>>
    /\ transfer_opportunities = <<>>
    /\ ForecastIdle
    /\ ScenarioIdle

AssessRisk ==
    /\ pc = "assess"
    /\ risk_result' = AssessCapacityRisk(risk_input.avg_util, 1,
                                         risk_input.max_util,
                                         risk_input.trend_slope, 1)
    /\ pc' = "assessed"
    /\ UNCHANGED <<risk_input, analysis_order, analysis_step>>
    /\ UNCHANGED <<distance_vars, order_vars>>
    /\ UNCHANGED <<forecast_vars, optimizer_vars, scenario_vars>>

NextRisk == AssessRisk

SpecRisk == InitRisk /\ [][NextRisk]_vars

\* C14: score = (3 if mean > 80 else 1 if mean > 60 else 0)
\* + (3 if peak > 95 else 2 if peak > 85 else 0)
\* + (2 if slope > 1.0 else 1 if slope > 0.5 else 0), so 0 <= score <= 8;
\* level is HIGH iff score >= 5, MEDIUM iff 3 <= score <= 4, LOW iff
\* 1 <= score <= 2, MINIMAL iff score = 0.
C14_RiskRules ==
    pc = "assessed" =>
        LET mean  == risk_input.avg_util
            peak  == risk_input.max_util
            slope == risk_input.trend_slope
            score == risk_result.score
            level == risk_result.level
        IN  /\ score = (CASE mean > 8000 -> 3 [] mean > 6000 /\ mean <= 8000 -> 1
                          [] OTHER -> 0)
                       + (CASE peak > 9500 -> 3 [] peak > 8500 /\ peak <= 9500 -> 2
                            [] OTHER -> 0)
                       + (CASE slope > 100 -> 2 [] slope > 50 /\ slope <= 100 -> 1
                            [] OTHER -> 0)
            /\ 0 <= score /\ score <= 8
            /\ level \in {"HIGH", "MEDIUM", "LOW", "MINIMAL"}
            /\ (level = "HIGH") <=> (score >= 5)
            /\ (level = "MEDIUM") <=> (3 <= score /\ score <= 4)
            /\ (level = "LOW") <=> (1 <= score /\ score <= 2)
            /\ (level = "MINIMAL") <=> (score = 0)

\* A call with every rule at its highest step: mean above 80, peak above 95
\* and slope above 1.0 give the score 8 and the level HIGH.
C14_Witness ==
    /\ pc = "assessed"
    /\ risk_input.avg_util > 8000
    /\ risk_input.max_util > 9500
    /\ risk_input.trend_slope > 100
    /\ risk_result.score = 8
    /\ risk_result.level = "HIGH"

-----------------------------------------------------------------------------
(* analyze_capacity_utilization, one warehouse of its loop at a time       *)

\* The forecasts the stepwise analyzer is run on.
AnalyzerInputs ==
    { [capacity |-> 100, totals |-> <<>>],
      [capacity |-> 100, totals |-> <<600, 455>>],
      [capacity |-> 100, totals |-> <<900, 950>>] }

\* The orders in which the warehouses can be visited; the source visits
\* them in the order of self.warehouses.
AnalysisOrders ==
    { order \in [1..Len(OptimizerWarehouses) -> Range(OptimizerWarehouses)] :
        \A i, j \in 1..Len(OptimizerWarehouses) :
            order[i] = order[j] => i = j }

InitAnalyzer ==
    /\ pc = "analyzing"
    /\ \E input \in [Range(OptimizerWarehouses) -> AnalyzerInputs] :
          /\ optimizer_capacities =
                [w \in Range(OptimizerWarehouses) |-> input[w].capacity]
          /\ warehouse_forecasts =
                [w \in Range(OptimizerWarehouses) |-> input[w].totals]
    /\ business_rules \in { r \in BusinessRules : r.minimum_transfer_size = 5 }
    /\ analysis_order \in AnalysisOrders
    /\ analysis_step = 1
    /\ capacity_analysis = <<>>
    /\ high_util_warehouses = <<>>
    /\ low_util_warehouses = <<>>
    /\ transfer_opportunities = <<>>
    /\ risk_input = <<>>
    /\ risk_result = <<>>
    /\ DistanceIdle
    /\ OrderIdle
    /\ ForecastIdle
    /\ ScenarioIdle

\* One iteration of "for warehouse in self.warehouses": a warehouse without
\* monthly positions is skipped, any other gets its record.
AnalyzeWarehouse ==
    /\ pc = "analyzing"
    /\ LET warehouse == analysis_order[analysis_step]
       IN  capacity_analysis' =
              IF warehouse_forecasts[warehouse] = <<>>
              THEN capacity_analysis
              ELSE capacity_analysis @@
                   (warehouse :> AnalysisRecord(warehouse,
                                                optimizer_capacities[warehouse],
                                                warehouse_forecasts[warehouse]))
    /\ analysis_step' = analysis_step + 1
    /\ pc' = IF analysis_step = Len(analysis_order) THEN "analyzed"
             ELSE "analyzing"
    /\ UNCHANGED <<warehouse_forecasts, optimizer_capacities, business_rules,
                   high_util_warehouses, low_util_warehouses,
                   transfer_opportunities, risk_input, risk_result,
                   analysis_order>>
    /\ UNCHANGED <<forecast_vars, scenario_vars>>
    /\ UNCHANGED <<distance_vars, order_vars>>

NextAnalyzer == AnalyzeWarehouse

SpecAnalyzer == InitAnalyzer /\ [][NextAnalyzer]_vars

-----------------------------------------------------------------------------
(* Runs without their configuration                                        *)

\* No candidate source, no candidate destination, or every candidate pair
\* with a quantity below the minimum.
NoViablePair ==
    \/ high_util_warehouses = <<>>
    \/ low_util_warehouses = <<>>
    \/ \A source_wh \in Range(high_util_warehouses),
          dest_wh \in Range(low_util_warehouses) :
          PairQuantity(source_wh, dest_wh)
              < business_rules.minimum_transfer_size * 100

\* C19: when no warehouse has final utilization above 70%, or none has
\* final utilization below 50%, or every candidate pair yields a quantity
\* below the minimum, identify_transfer_opportunities returns an empty list
\* without raising.
C19_NoViablePairIsEmpty ==
    (pc \in {"transfers", "error"} /\ NoViablePair) =>
        /\ pc = "transfers"
        /\ transfer_opportunities = <<>>

\* Candidate sources and destinations exist, a pair has a positive
\* quantity, every pair is below the minimum, and the list is empty.
C19_Witness ==
    /\ pc = "transfers"
    /\ high_util_warehouses # <<>>
    /\ low_util_warehouses # <<>>
    /\ \E source_wh \in Range(high_util_warehouses),
          dest_wh \in Range(low_util_warehouses) :
          PairQuantity(source_wh, dest_wh) > 0
    /\ NoViablePair
    /\ transfer_opportunities = <<>>

\* The forecast run with a configuration that holds no capacity.
InitForecastUnconfigured ==
    /\ pc = "train"
    /\ training_data \in
          [Range(ForecastWarehouses) ->
             [Range(products) -> [Range(flow_types) -> TrainingSeries]]]
    /\ prophet_models = <<>>
    /\ starting_inventory \in
          [Range(ForecastWarehouses) -> [Range(products) -> StartingInventories]]
    /\ warehouse_capacities = <<>>
    /\ month = 1
    /\ wh = 1
    /\ current_inventory = <<>>
    /\ monthly_forecasts = EmptyForecasts
    /\ forecasts = EmptyForecasts
    /\ rolling_inventory = EmptyLedger
    /\ monthly_positions = [w \in Range(ForecastWarehouses) |-> <<>>]
    /\ alerts = <<>>
    /\ network_summary = <<>>
    /\ warehouse_forecasts = <<>>
    /\ optimizer_capacities = <<>>
    /\ business_rules = <<>>
    /\ capacity_analysis = <<>>
    /\ high_util_warehouses = <<>>
    /\ low_util_warehouses = <<>>
    /\ transfer_opportunities = <<>>
    /\ AnalyzerIdle
    /\ DistanceIdle
    /\ OrderIdle
    /\ ScenarioIdle

\* The optimizer with its forecasts and capacities but without business
\* rules (self.business_rules = {}).
InitOptimizerUnconfigured ==
    /\ pc = "loaded"
    /\ \E input \in [Range(OptimizerWarehouses) -> ForecastInputs] :
          /\ optimizer_capacities =
                [w \in Range(OptimizerWarehouses) |-> input[w].capacity]
          /\ warehouse_forecasts =
                [w \in Range(OptimizerWarehouses) |-> input[w].totals]
    /\ business_rules = <<>>
    /\ capacity_analysis = <<>>
    /\ high_util_warehouses = <<>>
    /\ low_util_warehouses = <<>>
    /\ transfer_opportunities = <<>>
    /\ ForecastIdle
    /\ AnalyzerIdle
    /\ DistanceIdle
    /\ OrderIdle
    /\ ScenarioIdle

InitUnconfigured == InitForecastUnconfigured \/ InitOptimizerUnconfigured

NextUnconfigured ==
    \/ TrainProphetModels
    \/ StartForecast
    \/ AnalyzeCapacityUtilization
    \/ IdentifyTransferOpportunities

SpecUnconfigured == InitUnconfigured /\ [][NextUnconfigured]_vars

\* C20: if the capacity of a warehouse is missing, generate_rolling_forecast
\* fails with an error and returns no ledger; if the business rules are
\* missing, identify_transfer_opportunities fails with an error instead of
\* returning a recommendation list, for every capacity analysis.
C20_MissingConfigIsFatal ==
    /\ (pc \in {"predict", "update", "summary", "done"} => ~CapacityMissing)
    /\ (pc = "error" /\ training_data # <<>>) => rolling_inventory = EmptyLedger
    /\ (RulesMissing(business_rules) /\ warehouse_forecasts # <<>>)
          => pc # "transfers"

\* The part of C20 the code keeps: without a capacity the forecast run stops
\* with an error before the first ledger entry, and without business rules
\* identify_transfer_opportunities fails whenever it has a candidate pair.
C20_FatalWhenNeeded ==
    /\ (pc \in {"predict", "update", "summary", "done"} => ~CapacityMissing)
    /\ (pc = "error" /\ training_data # <<>>) => rolling_inventory = EmptyLedger
    /\ (pc = "transfers" /\ RulesMissing(business_rules))
          => \/ high_util_warehouses = <<>>
             \/ low_util_warehouses = <<>>
    /\ (pc = "error" /\ warehouse_forecasts # <<>>)
          => /\ high_util_warehouses # <<>>
             /\ low_util_warehouses # <<>>
             /\ transfer_opportunities = <<>>

-----------------------------------------------------------------------------
(* generate_capacity_alerts                                                *)

RECURSIVE Concat(_)
Concat(seqs) == IF seqs = <<>> THEN <<>> ELSE Head(seqs) \o Concat(Tail(seqs))

\* The alerts of one warehouse, in the order they are appended.  The
\* message and the recommendation of an alert are left out.
WarehouseAlerts(warehouse, data) ==
    LET util_metrics == data.utilization_metrics
        level_alert ==
            IF util_metrics.max_utilization > 9500
            THEN << [type |-> "OVER_CAPACITY_RISK", severity |-> "HIGH",
                     warehouse |-> warehouse, priority |-> 1] >>
            ELSE IF util_metrics.final_utilization > 8500
            THEN << [type |-> "HIGH_UTILIZATION", severity |-> "MEDIUM",
                     warehouse |-> warehouse, priority |-> 2] >>
            ELSE IF util_metrics.final_utilization < 3000
            THEN << [type |-> "UNDER_UTILIZATION", severity |-> "LOW",
                     warehouse |-> warehouse, priority |-> 3] >>
            ELSE <<>>
        trend_alert ==
            IF /\ data.trend_analysis.trend_direction = "Increasing"
               /\ util_metrics.final_utilization > 7000
            THEN << [type |-> "CAPACITY_TREND_WARNING", severity |-> "MEDIUM",
                     warehouse |-> warehouse, priority |-> 2] >>
            ELSE <<>>
    IN  level_alert \o trend_alert

\* generate_capacity_alerts: the alerts of every warehouse, sorted by
\* priority (ascending, alerts of equal priority in their original order).
GenerateCapacityAlerts(analysis) ==
    LET items == AnalysisItems(analysis)
        found == Concat([i \in 1..Len(items) |->
                            WarehouseAlerts(items[i], analysis[items[i]])])
    IN  SortDescending(found, [i \in 1..Len(found) |-> -found[i].priority])

-----------------------------------------------------------------------------
(* Changes a scenario makes to the record of a warehouse                   *)

\* "Simulate pct utilization" / "Update inventory level": current_inventory
\* becomes round(max_capacity * pct / 100) and final_utilization becomes pct
\* (hundredths of a percent).  data holds the references of the record.
SetUtilization(h, data, pct) ==
    LET max_capacity == h[data.warehouse_info].max_capacity
        h1 == SetItem(h, data.warehouse_info, "current_inventory",
                      RoundHalfEven(max_capacity * pct, 10000))
    IN  SetItem(h1, data.utilization_metrics, "final_utilization", pct)

\* "Recalculate available capacity": neither value is rounded.  The
\* percentage is exact for the capacities of the model.
RecalculateAvailable(h, data) ==
    LET info == h[data.warehouse_info]
        available_capacity == info.max_capacity - info.current_inventory
        h1 == SetItem(h, data.warehouse_info, "available_capacity",
                      available_capacity)
    IN  SetItem(h1, data.warehouse_info, "available_capacity_pct",
                (available_capacity * 10000) \div info.max_capacity)

\* The identity of the dict a scenario assigns to 'risk_assessment'.
RiskId(w) == <<"risk", w>>

-----------------------------------------------------------------------------
(* simulate_high_demand_scenario and main() of the optimizer               *)

\* The load simulated for a warehouse: the utilization and, for Atlanta and
\* Nashville, the arguments of _assess_capacity_risk; nothing for a
\* warehouse that has no branch.
HighDemandLoad(warehouse) ==
    CASE warehouse = "Atlanta" ->
            [pct |-> 8500, risk |-> <<8500, 8700, 120>>]
      [] warehouse = "Nashville" ->
            [pct |-> 9000, risk |-> <<9000, 9200, 150>>]
      [] warehouse = "Chicago" -> [pct |-> 3000, risk |-> <<>>]
      [] warehouse = "LA" -> [pct |-> 2500, risk |-> <<>>]
      [] OTHER -> [pct |-> -1, risk |-> <<>>]

\* One iteration of the loop.  scenario_data = data.copy() copies the record
\* of the warehouse only: it refers to the same nested dicts as data.
HighDemandWarehouse(h, warehouse, data) ==
    LET scenario_data == data
        load == HighDemandLoad(warehouse)
        h1 == IF load.pct >= 0 THEN SetUtilization(h, scenario_data, load.pct)
              ELSE h
        h2 == IF load.risk # <<>>
              THEN SetItem(h1, scenario_data.trend_analysis,
                           "trend_direction", "Increasing")
              ELSE h1
        h3 == IF load.risk # <<>>
              THEN (RiskId(warehouse) :>
                      AssessCapacityRisk(load.risk[1], 1, load.risk[2],
                                         load.risk[3], 1)) @@ h2
              ELSE h2
        scenario_data3 ==
              IF load.risk # <<>>
              THEN [scenario_data EXCEPT !.risk_assessment = RiskId(warehouse)]
              ELSE scenario_data
    IN  [heap |-> RecalculateAvailable(h3, scenario_data3),
         data |-> scenario_data3]

\* The loop over capacity_analysis.items(): st holds the heap and the
\* scenario analysis built so far.
RECURSIVE HighDemandFrom(_, _, _)
HighDemandFrom(st, refs, items) ==
    IF items = <<>> THEN st
    ELSE LET warehouse == Head(items)
             r == HighDemandWarehouse(st.heap, warehouse, refs[warehouse])
         IN  HighDemandFrom([heap     |-> r.heap,
                             analysis |-> st.analysis @@ (warehouse :> r.data)],
                            refs, Tail(items))

SimulateHighDemand(h, refs) ==
    HighDemandFrom([heap |-> h, analysis |-> <<>>], refs, AnalysisItems(refs))

\* The forecasts the scenarios are run on.
ScenarioInputs ==
    { [capacity |-> 100,  totals |-> <<>>],
      [capacity |-> 100,  totals |-> <<900, 950>>],
      [capacity |-> 1000, totals |-> <<3000>>],
      [capacity |-> 2500, totals |-> <<11250>>] }

InitHighDemand ==
    /\ pc = "loaded"
    /\ \E input \in [Range(OptimizerWarehouses) -> ScenarioInputs] :
          /\ optimizer_capacities =
                [w \in Range(OptimizerWarehouses) |-> input[w].capacity]
          /\ warehouse_forecasts =
                [w \in Range(OptimizerWarehouses) |-> input[w].totals]
    /\ business_rules \in { r \in BusinessRules : r.minimum_transfer_size = 5 }
    /\ capacity_analysis = <<>>
    /\ high_util_warehouses = <<>>
    /\ low_util_warehouses = <<>>
    /\ transfer_opportunities = <<>>
    /\ ForecastIdle
    /\ AnalyzerIdle
    /\ DistanceIdle
    /\ OrderIdle
    /\ ScenarioIdle

\* main(): capacity_alerts = optimizer.generate_capacity_alerts(capacity_analysis)
GenerateAlerts ==
    /\ pc = "transfers"
    /\ baseline_alerts' = GenerateCapacityAlerts(Deref(heap, base_analysis))
    /\ pc' = "alerts"
    /\ UNCHANGED <<heap, base_analysis, scenario_config, scenario_analysis,
                   baseline_transfers, scenario_transfers, scenario_alerts,
                   impact_summary>>
    /\ UNCHANGED <<forecast_vars, optimizer_vars, analyzer_vars>>
    /\ UNCHANGED <<distance_vars, order_vars>>

\* main(): scenario_analysis = optimizer.simulate_high_demand_scenario(capacity_analysis)
SimulateHighDemandScenario ==
    /\ pc = "alerts"
    /\ LET r == SimulateHighDemand(heap, base_analysis)
       IN  /\ heap' = r.heap
           /\ scenario_analysis' = r.analysis
    /\ pc' = "high_demand"
    /\ UNCHANGED <<base_analysis, scenario_config, baseline_transfers,
                   scenario_transfers, baseline_alerts, scenario_alerts,
                   impact_summary>>
    /\ UNCHANGED <<forecast_vars, optimizer_vars, analyzer_vars>>
    /\ UNCHANGED <<distance_vars, order_vars>>

\* main(): the transfers and alerts of the scenario; then the results are
\* written, 'current_state' holding capacity_analysis as it is by then.
HighDemandRecommendations ==
    /\ pc = "high_demand"
    /\ scenario_transfers' =
          IdentifyTransfers(Deref(heap, scenario_analysis), business_rules)
    /\ scenario_alerts' = GenerateCapacityAlerts(Deref(heap, scenario_analysis))
    /\ pc' = "written"
    /\ UNCHANGED <<heap, base_analysis, scenario_config, scenario_analysis,
                   baseline_transfers, baseline_alerts, impact_summary>>
    /\ UNCHANGED <<forecast_vars, optimizer_vars, analyzer_vars>>
    /\ UNCHANGED <<distance_vars, order_vars>>

NextHighDemand ==
    \/ AnalyzeCapacityUtilization
    \/ IdentifyTransferOpportunities
    \/ GenerateAlerts
    \/ SimulateHighDemandScenario
    \/ HighDemandRecommendations

SpecHighDemand == InitHighDemand /\ [][NextHighDemand]_vars

\* C13: after simulate_high_demand_scenario the capacity analysis passed in
\* (warehouse_info, utilization_metrics and trend_analysis of every
\* warehouse) is unchanged, so the 'current_state' capacity analysis written
\* by main() is the one computed before the scenario.
C13_HighDemandKeepsBaseline ==
    pc \in {"high_demand", "written"} =>
        \A w \in DOMAIN capacity_analysis :
            \A f \in {"warehouse_info", "utilization_metrics", "trend_analysis"} :
                heap[base_analysis[w][f]] = capacity_analysis[w][f]

\* What the shallow copy does keep: the risk assessment and the timeline of
\* the analysis passed in.
C13_HighDemandKeepsRisk ==
    pc \in {"high_demand", "written"} =>
        \A w \in DOMAIN capacity_analysis :
            \A f \in {"risk_assessment", "timeline_data"} :
                heap[base_analysis[w][f]] = capacity_analysis[w][f]

-----------------------------------------------------------------------------
(* The scenario simulator: apply_scenario_changes                          *)

\* dict.get(key, default)
Get(d, key, default) == IF key \in DOMAIN d THEN d[key] ELSE default

CopyId(w, f) == <<"copy", w, f>>

\* Mutant: the scenario works on the baseline's own nested dicts.
ShallowCopyDict(h, w, data) == [heap |-> h, data |-> data]

\* deep_copy_dict: every nested dict of the record is a new object with the
\* same content.
DeepCopyDict(h, w, data) ==
    [heap |-> [id \in { CopyId(w, f) : f \in Fields } |-> h[data[id[3]]]] @@ h,
     data |-> [f \in Fields |-> CopyId(w, f)]]

\* The body of "if warehouse_changes:".
ApplyWarehouseChanges(h, w, data, warehouse_changes) ==
    LET h1 == IF "target_utilization" \in DOMAIN warehouse_changes
              THEN SetUtilization(h, data, warehouse_changes.target_utilization)
              ELSE h
        h2 == IF "trend_direction" \in DOMAIN warehouse_changes
              THEN SetItem(h1, data.trend_analysis, "trend_direction",
                           warehouse_changes.trend_direction)
              ELSE h1
        new_util == h2[data.utilization_metrics].final_utilization
        increasing ==
            Get(warehouse_changes, "trend_direction", "None") = "Increasing"
        h3 == (RiskId(w) :>
                 AssessCapacityRisk(new_util, 1, new_util + 200,
                                    IF increasing THEN 100 ELSE 0, 1)) @@ h2
        data3 == [data EXCEPT !.risk_assessment = RiskId(w)]
    IN  [heap |-> RecalculateAvailable(h3, data3), data |-> data3]

\* One iteration of the loop over base_analysis.items().
ScenarioWarehouse(h, w, data, config) ==
    LET copy == DeepCopyDict(h, w, data)
        warehouse_changes ==
            Get(Get(config, "warehouse_changes", <<>>), w, <<>>)
    IN  IF DOMAIN warehouse_changes # {}
        THEN ApplyWarehouseChanges(copy.heap, w, copy.data, warehouse_changes)
        ELSE copy

RECURSIVE ScenarioFrom(_, _, _, _)
ScenarioFrom(st, refs, items, config) ==
    IF items = <<>> THEN st
    ELSE LET w == Head(items)
             r == ScenarioWarehouse(st.heap, w, refs[w], config)
         IN  ScenarioFrom([heap     |-> r.heap,
                           analysis |-> st.analysis @@ (w :> r.data)],
                          refs, Tail(items), config)

\* "Apply network-wide changes": the donation is added to the inventory of
\* its warehouse and final_utilization becomes the unrounded percentage
\* (exact in hundredths for the capacities and quantities of the model).
ApplyDonation(st, config) ==
    LET network_changes == Get(config, "network_changes", <<>>)
    IN  IF "large_donation_event" \notin DOMAIN network_changes THEN st
        ELSE LET donation_event == network_changes.large_donation_event
                 target_warehouse == donation_event.warehouse
             IN  IF target_warehouse \notin DOMAIN st.analysis THEN st
                 ELSE LET data == st.analysis[target_warehouse]
                          info == st.heap[data.warehouse_info]
                          new_inventory ==
                              info.current_inventory + donation_event.quantity
                          h1 == SetItem(st.heap, data.warehouse_info,
                                        "current_inventory", new_inventory)
                      IN  [st EXCEPT !.heap =
                              SetItem(h1, data.utilization_metrics,
                                      "final_utilization",
                                      (new_inventory * 10000)
                                          \div info.max_capacity)]

ApplyScenario(h, refs, config) ==
    ApplyDonation(ScenarioFrom([heap |-> h, analysis |-> <<>>], refs,
                               AnalysisItems(refs), config),
                  config)

-----------------------------------------------------------------------------
(* calculate_scenario_impact                                               *)

\* Mutant: the difference taken the other way round.
UtilizationDifferenceReversed(base_util, scenario_util) ==
    base_util - scenario_util

UtilizationDifference(base_util, scenario_util) == scenario_util - base_util

\* round(x, 1) of a percentage held in hundredths.
Round1(x) == 10 * RoundHalfEven(x, 10)

TransferTotal(transfers, field) ==
    SumSeq([i \in 1..Len(transfers) |-> transfers[i].cost_analysis[field]])

CalculateScenarioImpact(base, scenario, transfers) ==
    LET items == AnalysisItems(base)
        diff(w) ==
            UtilizationDifference(base[w].utilization_metrics.final_utilization,
                                  scenario[w].utilization_metrics.final_utilization)
    IN  [utilization_changes |->
            [w \in DOMAIN base |->
                [baseline |-> base[w].utilization_metrics.final_utilization,
                 scenario |-> scenario[w].utilization_metrics.final_utilization,
                 change   |-> Round1(diff(w))]],
         new_alerts_generated |-> 0,
         transfer_opportunities_created |-> Len(transfers),
         total_utilization_improvement |->
            SumSeq([i \in 1..Len(items) |-> Abs(diff(items[i]))]),
         cost_impact |->
            [transfer_costs  |->
                TransferTotal(transfers, "estimated_transfer_cost"),
             storage_savings |->
                TransferTotal(transfers, "estimated_storage_savings"),
             net_impact      |-> TransferTotal(transfers, "net_benefit")]]

-----------------------------------------------------------------------------
(* run_custom_scenario                                                     *)

\* The per-warehouse overrides and the donations of the scenarios run.
ScenarioWarehouseChanges ==
    { <<>>,
      [Atlanta |-> [target_utilization |-> 8500,
                    trend_direction |-> "Increasing"]],
      [Nashville |-> [target_utilization |-> 3000]],
      [Atlanta |-> [trend_direction |-> "Increasing"],
       Nashville |-> [target_utilization |-> 8500],
       Chicago |-> <<>>] }

ScenarioNetworkChanges ==
    { <<>>,
      [large_donation_event |-> [warehouse |-> "Atlanta", quantity |-> 1]],
      [large_donation_event |-> [warehouse |-> "Chicago", quantity |-> 10]],
      [large_donation_event |-> [warehouse |-> "Boston", quantity |-> 5]] }

ScenarioConfigs ==
    { [warehouse_changes |-> wc, network_changes |-> nc] :
        wc \in ScenarioWarehouseChanges, nc \in ScenarioNetworkChanges }

InitScenario ==
    /\ pc = "loaded"
    /\ \E input \in [Range(OptimizerWarehouses) -> ScenarioInputs] :
          /\ optimizer_capacities =
                [w \in Range(OptimizerWarehouses) |-> input[w].capacity]
          /\ warehouse_forecasts =
                [w \in Range(OptimizerWarehouses) |-> input[w].totals]
    /\ business_rules \in { r \in BusinessRules : r.minimum_transfer_size = 5 }
    /\ scenario_config \in ScenarioConfigs
    /\ capacity_analysis = <<>>
    /\ high_util_warehouses = <<>>
    /\ low_util_warehouses = <<>>
    /\ transfer_opportunities = <<>>
    /\ heap = <<>>
    /\ base_analysis = <<>>
    /\ scenario_analysis = <<>>
    /\ baseline_transfers = <<>>
    /\ scenario_transfers = <<>>
    /\ baseline_alerts = <<>>
    /\ scenario_alerts = <<>>
    /\ impact_summary = <<>>
    /\ ForecastIdle
    /\ AnalyzerIdle
    /\ DistanceIdle
    /\ OrderIdle

\* scenario_analysis = self.apply_scenario_changes(base_analysis, scenario_config)
ApplyScenarioChanges ==
    /\ pc = "analyzed"
    /\ LET r == ApplyScenario(heap, base_analysis, scenario_config)
       IN  /\ heap' = r.heap
           /\ scenario_analysis' = r.analysis
    /\ pc' = "scenario"
    /\ UNCHANGED <<base_analysis, scenario_config, baseline_transfers,
                   scenario_transfers, baseline_alerts, scenario_alerts,
                   impact_summary>>
    /\ UNCHANGED <<forecast_vars, optimizer_vars, analyzer_vars>>
    /\ UNCHANGED <<distance_vars, order_vars>>

\* "Generate recommendations" for the scenario.
ScenarioRecommendations ==
    /\ pc = "scenario"
    /\ scenario_transfers' =
          IdentifyTransfers(Deref(heap, scenario_analysis), business_rules)
    /\ scenario_alerts' = GenerateCapacityAlerts(Deref(heap, scenario_analysis))
    /\ pc' = "recommended"
    /\ UNCHANGED <<heap, base_analysis, scenario_config, scenario_analysis,
                   baseline_transfers, baseline_alerts, impact_summary>>
    /\ UNCHANGED <<forecast_vars, optimizer_vars, analyzer_vars>>
    /\ UNCHANGED <<distance_vars, order_vars>>

\* "Create results": the baseline's transfers and alerts are computed from
\* base_analysis as it is now, then the impact summary.
CreateResults ==
    /\ pc = "recommended"
    /\ baseline_transfers' =
          IdentifyTransfers(Deref(heap, base_analysis), business_rules)
    /\ baseline_alerts' = GenerateCapacityAlerts(Deref(heap, base_analysis))
    /\ impact_summary' =
          CalculateScenarioImpact(Deref(heap, base_analysis),
                                  Deref(heap, scenario_analysis),
                                  scenario_transfers)
    /\ pc' = "results"
    /\ UNCHANGED <<heap, base_analysis, scenario_config, scenario_analysis,
                   scenario_transfers, scenario_alerts>>
    /\ UNCHANGED <<forecast_vars, optimizer_vars, analyzer_vars>>
    /\ UNCHANGED <<distance_vars, order_vars>>

NextScenario ==
    \/ AnalyzeCapacityUtilization
    \/ ApplyScenarioChanges
    \/ ScenarioRecommendations
    \/ CreateResults

SpecScenario == InitScenario /\ [][NextScenario]_vars

\* The scenario changes something: an override or a donation applies to a
\* warehouse of the analysis.
ScenarioApplies ==
    \/ \E w \in DOMAIN base_analysis :
          DOMAIN Get(scenario_config.warehouse_changes, w, <<>>) # {}
    \/ /\ "large_donation_event" \in DOMAIN scenario_config.network_changes
       /\ scenario_config.network_changes.large_donation_event.warehouse
             \in DOMAIN base_analysis

\* C12: the scenario simulator never mutates the baseline.  After
\* apply_scenario_changes, and to the end of run_custom_scenario, every field
\* of the baseline capacity analysis has the value it had before the
\* scenario ran, and the baseline transfers and alerts computed afterwards
\* are those of the analysis as it was before.
C12_BaselineNotMutated ==
    /\ pc \in {"scenario", "recommended", "results"} =>
          Deref(heap, base_analysis) = capacity_analysis
    /\ pc = "results" =>
          /\ baseline_transfers =
                IdentifyTransfers(capacity_analysis, business_rules)
          /\ baseline_alerts = GenerateCapacityAlerts(capacity_analysis)

\* A finished run with an override and a donation on warehouses of the
\* analysis, whose scenario differs from the baseline, and whose baseline
\* has a transfer and an alert.
C12_Witness ==
    /\ pc = "results"
    /\ \E w \in DOMAIN base_analysis :
          "target_utilization"
              \in DOMAIN Get(scenario_config.warehouse_changes, w, <<>>)
    /\ "large_donation_event" \in DOMAIN scenario_config.network_changes
    /\ scenario_config.network_changes.large_donation_event.warehouse
          \in DOMAIN base_analysis
    /\ \E w \in DOMAIN base_analysis :
          Deref(heap, scenario_analysis)[w].warehouse_info
              # capacity_analysis[w].warehouse_info
    /\ baseline_transfers # <<>>
    /\ baseline_alerts # <<>>

\* The final utilization of a warehouse in the baseline and in the scenario
\* of a finished run.
BaselineFinal(w) == capacity_analysis[w].utilization_metrics.final_utilization

ScenarioFinal(w) ==
    heap[scenario_analysis[w].utilization_metrics].final_utilization

NoScenarioChanges ==
    /\ \A w \in DOMAIN base_analysis :
          DOMAIN Get(scenario_config.warehouse_changes, w, <<>>) = {}
    /\ "large_donation_event" \notin DOMAIN scenario_config.network_changes

\* C16 as stated: for every warehouse of the baseline, change is exactly
\* scenario final utilization - baseline final utilization, the aggregate is
\* the sum of the absolute differences, and a scenario with no overrides and
\* no injection gives change 0 everywhere and aggregate 0.
C16_UtilizationDiffExact ==
    pc = "results" =>
        /\ \A w \in DOMAIN base_analysis :
              impact_summary.utilization_changes[w].change
                  = ScenarioFinal(w) - BaselineFinal(w)
        /\ impact_summary.total_utilization_improvement =
              LET items == AnalysisItems(base_analysis)
              IN  SumSeq([i \in 1..Len(items) |->
                     Abs(ScenarioFinal(items[i]) - BaselineFinal(items[i]))])
        /\ NoScenarioChanges =>
              /\ \A w \in DOMAIN base_analysis :
                    impact_summary.utilization_changes[w].change = 0
              /\ impact_summary.total_utilization_improvement = 0

\* C16: the utilization part of the impact summary is a diff of scenario
\* against baseline.  For every warehouse of the baseline, change is the
\* scenario final utilization minus the baseline final utilization rounded
\* to one decimal of a percent; the aggregate is the sum over all warehouses
\* of the absolute value of the unrounded difference; a scenario with no
\* overrides and no injection gives change 0 everywhere and aggregate 0.
C16_UtilizationDiffRounded ==
    pc = "results" =>
        /\ DOMAIN impact_summary.utilization_changes = DOMAIN base_analysis
        /\ \A w \in DOMAIN base_analysis :
              /\ impact_summary.utilization_changes[w].baseline = BaselineFinal(w)
              /\ impact_summary.utilization_changes[w].scenario = ScenarioFinal(w)
              /\ impact_summary.utilization_changes[w].change
                    = Round1(ScenarioFinal(w) - BaselineFinal(w))
        /\ impact_summary.total_utilization_improvement =
              LET items == AnalysisItems(base_analysis)
              IN  SumSeq([i \in 1..Len(items) |->
                     Abs(ScenarioFinal(items[i]) - BaselineFinal(items[i]))])
        /\ NoScenarioChanges =>
              /\ \A w \in DOMAIN base_analysis :
                    impact_summary.utilization_changes[w].change = 0
              /\ impact_summary.total_utilization_improvement = 0

\* A finished run in which a donation moved one warehouse by 0.04% (change
\* rounds to 0.0 while the aggregate counts the 0.04) and an override
\* lowered another one.
C16_Witness ==
    /\ pc = "results"
    /\ \E w \in DOMAIN base_analysis :
          /\ ScenarioFinal(w) - BaselineFinal(w) = 4
          /\ impact_summary.utilization_changes[w].change = 0
    /\ \E w \in DOMAIN base_analysis :
          impact_summary.utilization_changes[w].change < 0
    /\ impact_summary.total_utilization_improvement > 4

\* A finished run without overrides or injection on a non-empty baseline:
\* every change and the aggregate are 0.
C16_NoChangeWitness ==
    /\ pc = "results"
    /\ NoScenarioChanges
    /\ Cardinality(DOMAIN base_analysis) >= 2
    /\ impact_summary.total_utilization_improvement = 0

\* C17: the cost part of the impact summary is a delta of the scenario's
\* transfer set versus the baseline's: transfer cost, storage savings and
\* net impact each equal the scenario transfer set's total minus the
\* baseline transfer set's total, so a scenario whose transfer set equals
\* the baseline's reports cost deltas of 0.
C17_CostIsDelta ==
    pc = "results" =>
        /\ impact_summary.cost_impact.transfer_costs =
              TransferTotal(scenario_transfers, "estimated_transfer_cost")
              - TransferTotal(baseline_transfers, "estimated_transfer_cost")
        /\ impact_summary.cost_impact.storage_savings =
              TransferTotal(scenario_transfers, "estimated_storage_savings")
              - TransferTotal(baseline_transfers, "estimated_storage_savings")
        /\ impact_summary.cost_impact.net_impact =
              TransferTotal(scenario_transfers, "net_benefit")
              - TransferTotal(baseline_transfers, "net_benefit")
        /\ scenario_transfers = baseline_transfers =>
              /\ impact_summary.cost_impact.transfer_costs = 0
              /\ impact_summary.cost_impact.storage_savings = 0
              /\ impact_summary.cost_impact.net_impact = 0

\* What the cost part is: the totals of the scenario's transfer set alone.
C17_CostIsScenarioTotal ==
    pc = "results" =>
        /\ impact_summary.transfer_opportunities_created = Len(scenario_transfers)
        /\ impact_summary.cost_impact.transfer_costs =
              TransferTotal(scenario_transfers, "estimated_transfer_cost")
        /\ impact_summary.cost_impact.storage_savings =
              TransferTotal(scenario_transfers, "estimated_storage_savings")
        /\ impact_summary.cost_impact.net_impact =
              TransferTotal(scenario_transfers, "net_benefit")

-----------------------------------------------------------------------------
(* generate_rolling_forecast with the loops in the order of the lists      *)
(* self.warehouses and self.products, one (warehouse, product) pair at a   *)
(* time.                                                                   *)

\* The orders of the two lists.
WarehouseLists == { <<"Atlanta", "Nashville">>, <<"Nashville", "Atlanta">> }

ProductLists == { <<"Footwear", "Apparel">>, <<"Apparel", "Footwear">> }

\* What the two models of a pair may predict for one date (tenths): a month
\* of net inflow, or a month whose outflow exceeds any stock.
OrderRows ==
    { [inflows  |-> [yhat |-> 45, yhat_lower |-> 41, yhat_upper |-> 49],
       outflows |-> [yhat |-> 5,  yhat_lower |-> 1,  yhat_upper |-> 9]],
      [inflows  |-> [yhat |-> -4, yhat_lower |-> -10, yhat_upper |-> 2],
       outflows |-> [yhat |-> 95, yhat_lower |-> 91,  yhat_upper |-> 99]] }

\* Starting inventory snapshots of the two warehouses (tenths).
OrderStartingInventories ==
    { [Atlanta   |-> [Footwear |-> 40, Apparel |-> 0],
       Nashville |-> [Footwear |-> 0,  Apparel |-> 40]],
      [Atlanta   |-> [Footwear |-> 40, Apparel |-> 40],
       Nashville |-> [Footwear |-> 0,  Apparel |-> 0]] }

\* The state when the date loop is entered: every series has a model.
InitOrder ==
    /\ pc = "predict"
    /\ warehouse_list \in WarehouseLists
    /\ product_list \in ProductLists
    /\ training_data = <<>>
    /\ prophet_models =
          [w \in Range(warehouse_list) |->
            [p \in Range(product_list) |-> [f \in Range(flow_types) |-> TRUE]]]
    /\ starting_inventory \in OrderStartingInventories
    /\ warehouse_capacities \in [Range(warehouse_list) -> Capacities]
    /\ month = 1
    /\ wh = 1
    /\ pr = 1
    /\ current_inventory = starting_inventory
    /\ monthly_forecasts =
          [w \in Range(warehouse_list) |->
            [p \in Range(product_list) |-> [f \in Range(flow_types) |-> <<>>]]]
    /\ forecasts = monthly_forecasts
    /\ rolling_inventory =
          [w \in Range(warehouse_list) |-> [p \in Range(product_list) |-> <<>>]]
    /\ monthly_positions = [w \in Range(warehouse_list) |-> <<>>]
    /\ warehouse_monthly_position = <<>>
    /\ alerts = <<>>
    /\ network_summary = <<>>
    /\ warehouse_forecasts = <<>>
    /\ optimizer_capacities = <<>>
    /\ business_rules = <<>>
    /\ capacity_analysis = <<>>
    /\ high_util_warehouses = <<>>
    /\ low_util_warehouses = <<>>
    /\ transfer_opportunities = <<>>
    /\ AnalyzerIdle
    /\ DistanceIdle
    /\ ScenarioIdle

\* "Predict flows for this month" for every pair of the two lists.
PredictFlowsOrdered ==
    /\ pc = "predict"
    /\ \E rows \in [Range(warehouse_list) ->
                      [Range(product_list) -> OrderRows]] :
          LET fc(w, p, f) == SeriesForecast(prophet_models[w][p][f], <<>>,
                                            rows[w][p][f])
          IN  /\ monthly_forecasts' =
                    [w \in Range(warehouse_list) |->
                      [p \in Range(product_list) |->
                        [f \in Range(flow_types) |->
                           Append(monthly_forecasts[w][p][f], fc(w, p, f))]]]
              /\ forecasts' =
                    [w \in Range(warehouse_list) |->
                      [p \in Range(product_list) |->
                        [f \in Range(flow_types) |->
                           Append(forecasts[w][p][f],
                                  RoundedForecast(fc(w, p, f)))]]]
    /\ pc' = "update"
    /\ UNCHANGED <<training_data, prophet_models, starting_inventory,
                   warehouse_capacities, month, wh, current_inventory,
                   rolling_inventory, monthly_positions, alerts,
                   network_summary>>
    /\ UNCHANGED <<warehouse_list, product_list, pr,
                   warehouse_monthly_position>>
    /\ UNCHANGED <<optimizer_vars, analyzer_vars, scenario_vars, distance_vars>>

\* Mutant: the position before the flows is read from the whole warehouse.
BeforePositionOfWarehouse(inventory, warehouse, product) ==
    LET held == inventory[warehouse]
    IN  SumSeq([i \in 1..Len(products) |-> held[products[i]]])

\* "Current position before flows".
BeforePosition(inventory, warehouse, product) == inventory[warehouse][product]

\* The position of a warehouse when its product loop starts.
NewMonthlyPosition ==
    [date                   |-> month,
     products               |-> <<>>,
     warehouse_total_before |-> 0,
     warehouse_total_after  |-> 0]

\* One iteration of the product loop: the pair (warehouse, product).
ResolvePair ==
    /\ pc = "update"
    /\ pr <= Len(product_list)
    /\ LET w        == warehouse_list[wh]
           p        == product_list[pr]
           capacity == warehouse_capacities[w]
           inflow   == monthly_forecasts[w][p]["inflows"][month].forecast
           outflow  == monthly_forecasts[w][p]["outflows"][month].forecast
           before_position == BeforePosition(current_inventory, w, p)
           after_position  ==
               AfterPosition(before_position, NetFlow(inflow, outflow))
           position == IF pr = 1 THEN NewMonthlyPosition
                       ELSE warehouse_monthly_position
       IN  /\ current_inventory' =
                 [current_inventory EXCEPT ![w][p] = after_position]
           /\ rolling_inventory' =
                 [rolling_inventory EXCEPT
                    ![w][p] = Append(@, LedgerEntry(before_position, inflow,
                                                    outflow, capacity))]
           /\ warehouse_monthly_position' =
                 [position EXCEPT
                    !.products = @ @@
                        (p :> [before |-> RoundUnits(before_position),
                               after  |-> RoundUnits(after_position)]),
                    !.warehouse_total_before = @ + before_position,
                    !.warehouse_total_after  = @ + after_position]
    /\ pr' = pr + 1
    /\ UNCHANGED <<pc, training_data, prophet_models, starting_inventory,
                   warehouse_capacities, month, wh, monthly_forecasts,
                   forecasts, monthly_positions, alerts, network_summary>>
    /\ UNCHANGED <<warehouse_list, product_list>>
    /\ UNCHANGED <<optimizer_vars, analyzer_vars, scenario_vars, distance_vars>>

\* The end of one iteration of the warehouse loop: "Check for alerts", the
\* position of the warehouse is stored, and the loops go on.
CloseWarehouse ==
    /\ pc = "update"
    /\ pr = Len(product_list) + 1
    /\ LET w        == warehouse_list[wh]
           capacity == warehouse_capacities[w]
           total_after == warehouse_monthly_position.warehouse_total_after
       IN  /\ alerts' = alerts \o CapacityAlerts(w, month, total_after, capacity)
           /\ monthly_positions' =
                 [monthly_positions EXCEPT
                    ![w] = Append(@,
                       [date                   |-> month,
                        products               |-> warehouse_monthly_position.products,
                        warehouse_total_before |->
                            warehouse_monthly_position.warehouse_total_before,
                        warehouse_total_after  |-> total_after,
                        capacity_utilization   |->
                            UtilizationPct1(total_after, capacity)])]
    /\ pr' = 1
    /\ IF wh < Len(warehouse_list)
       THEN /\ wh' = wh + 1
            /\ UNCHANGED <<pc, month>>
       ELSE /\ wh' = 1
            /\ IF month < horizon_months
               THEN pc' = "predict" /\ month' = month + 1
               ELSE pc' = "resolved" /\ UNCHANGED month
    /\ UNCHANGED <<training_data, prophet_models, starting_inventory,
                   warehouse_capacities, current_inventory, monthly_forecasts,
                   forecasts, rolling_inventory, network_summary>>
    /\ UNCHANGED <<warehouse_list, product_list, warehouse_monthly_position>>
    /\ UNCHANGED <<optimizer_vars, analyzer_vars, scenario_vars, distance_vars>>

NextOrder ==
    \/ PredictFlowsOrdered
    \/ ResolvePair
    \/ CloseWarehouse

SpecOrder == InitOrder /\ [][NextOrder]_vars

OrderedPairs == Range(warehouse_list) \X Range(product_list)

\* The total of a warehouse after month t, from the positions each of its
\* pairs reaches on its own.
OwnTotal(w, t) ==
    SumSeq([i \in 1..Len(products) |-> Position(w, products[i], t)])

\* The alert the contract prescribes for a warehouse and a closed month.
OwnAlerts(w, t) ==
    Range(CapacityAlerts(w, t, OwnTotal(w, t), warehouse_capacities[w]))

\* C26: periods are processed in chronological order and every pair of a
\* period is resolved before any pair of the next one; the ledger of a pair
\* depends only on that pair's starting inventory and its own inflow and
\* outflow forecasts, so whatever the order of the pairs within a period the
\* ledger, the warehouse totals and the alerts are the same.
C26_OrderIndependent ==
    /\ \A wp \in OrderedPairs :
          LET ledger == rolling_inventory[wp[1]][wp[2]]
          IN  /\ Len(ledger) \in {month - 1, month}
              /\ pc = "predict" => Len(ledger) = month - 1
              /\ pc = "resolved" => Len(ledger) = horizon_months
              /\ \A t \in 1..Len(ledger) :
                    ledger[t] =
                        LedgerEntry(Position(wp[1], wp[2], t - 1),
                                    Flow(wp[1], wp[2], "inflows", t),
                                    Flow(wp[1], wp[2], "outflows", t),
                                    warehouse_capacities[wp[1]])
    /\ \A w \in Range(warehouse_list) :
          /\ Len(monthly_positions[w]) \in {month - 1, month}
          /\ \A t \in 1..Len(monthly_positions[w]) :
                /\ monthly_positions[w][t].warehouse_total_before
                      = OwnTotal(w, t - 1)
                /\ monthly_positions[w][t].warehouse_total_after
                      = OwnTotal(w, t)
                /\ monthly_positions[w][t].capacity_utilization
                      = UtilizationPct1(OwnTotal(w, t), warehouse_capacities[w])
                /\ \A p \in Range(product_list) :
                      monthly_positions[w][t].products[p] =
                          [before |-> RoundUnits(Position(w, p, t - 1)),
                           after  |-> RoundUnits(Position(w, p, t))]
    /\ Range(alerts) =
          UNION { UNION { OwnAlerts(w, t) :
                             t \in 1..Len(monthly_positions[w]) } :
                  w \in Range(warehouse_list) }
    /\ Len(alerts) = Cardinality(Range(alerts))
    /\ \A i, j \in 1..Len(alerts) : i < j => alerts[i].date <= alerts[j].date

\* A finished run with both lists in the other order, in which a pair was
\* clamped at zero while the other pair of its warehouse grew, and a
\* warehouse raised an alert.
C26_Witness ==
    /\ pc = "resolved"
    /\ warehouse_list = <<"Nashville", "Atlanta">>
    /\ product_list = <<"Apparel", "Footwear">>
    /\ alerts # <<>>
    /\ \E w \in Range(warehouse_list) :
          /\ rolling_inventory[w]["Footwear"][horizon_months].ending_position = 0
          /\ rolling_inventory[w]["Footwear"][1].starting_position > 0
          /\ rolling_inventory[w]["Apparel"][horizon_months].ending_position
                > rolling_inventory[w]["Apparel"][1].starting_position

-----------------------------------------------------------------------------
(* Properties of the scenario-adjusted analysis                            *)

\* The warehouse_info of a warehouse in the scenario analysis.
ScenarioInfo(w) == heap[scenario_analysis[w].warehouse_info]

DerivedFromInventory(info) ==
    /\ info.available_capacity = info.max_capacity - info.current_inventory
    /\ info.available_capacity_pct * info.max_capacity
          = info.available_capacity * 10000

\* The warehouse a donation of the scenario is added to, if it is analysed.
DonationTargets ==
    IF "large_donation_event" \in DOMAIN scenario_config.network_changes
    THEN {scenario_config.network_changes.large_donation_event.warehouse}
            \cap DOMAIN scenario_analysis
    ELSE {}

\* C27: in every scenario-adjusted record returned by
\* apply_scenario_changes the derived fields are recomputed from the
\* record's final inventory: available_capacity = max_capacity -
\* current_inventory and available_capacity_pct accordingly, for every
\* combination of per-warehouse overrides and a donation.
C27_DerivedRecomputed ==
    pc \in {"scenario", "recommended", "results"} =>
        \A w \in DOMAIN scenario_analysis : DerivedFromInventory(ScenarioInfo(w))

\* What holds: the derived fields agree with the inventory for every
\* warehouse the donation was not added to, and a donated warehouse keeps
\* the availability it had before the donation.
C27_DerivedExceptDonation ==
    pc \in {"scenario", "recommended", "results"} =>
        /\ \A w \in DOMAIN scenario_analysis \ DonationTargets :
              DerivedFromInventory(ScenarioInfo(w))
        /\ \A w \in DonationTargets :
              ScenarioInfo(w).available_capacity =
                  ScenarioInfo(w).max_capacity
                    - (ScenarioInfo(w).current_inventory
                         - scenario_config.network_changes
                               .large_donation_event.quantity)

\* The alerts of a list that name a warehouse and have one of the types.
AlertsFor(alert_list, w, types) ==
    { i \in 1..Len(alert_list) : /\ alert_list[i].warehouse = w
                                 /\ alert_list[i].type \in types }

LevelAlertTypes == {"OVER_CAPACITY_RISK", "HIGH_UTILIZATION", "UNDER_UTILIZATION"}

\* Every warehouse of the analysis above 95% final utilization has exactly
\* one OVER_CAPACITY_RISK alert, of HIGH severity, and no warehouse has more
\* than one alert of the three level types.
OverCapacityAlerted(analysis, alert_list) ==
    \A w \in DOMAIN analysis :
        /\ analysis[w].utilization_metrics.final_utilization > 9500 =>
              /\ Cardinality(AlertsFor(alert_list, w, {"OVER_CAPACITY_RISK"})) = 1
              /\ \A i \in AlertsFor(alert_list, w, {"OVER_CAPACITY_RISK"}) :
                    alert_list[i].severity = "HIGH"
        /\ Cardinality(AlertsFor(alert_list, w, LevelAlertTypes)) <= 1

\* The same with the peak (max_utilization) deciding the alert.
PeakAlerted(analysis, alert_list) ==
    \A w \in DOMAIN analysis :
        /\ analysis[w].utilization_metrics.max_utilization > 9500 <=>
              Cardinality(AlertsFor(alert_list, w, {"OVER_CAPACITY_RISK"})) = 1
        /\ \A i \in AlertsFor(alert_list, w, {"OVER_CAPACITY_RISK"}) :
              alert_list[i].severity = "HIGH"
        /\ Cardinality(AlertsFor(alert_list, w, LevelAlertTypes)) <= 1

\* C28: for a capacity analysis, baseline or scenario-adjusted, every
\* warehouse whose final utilization in the record exceeds 95% gets exactly
\* one OVER_CAPACITY_RISK alert of HIGH severity from
\* generate_capacity_alerts, also when that utilization was set by a
\* target_utilization override or a donation; and no warehouse gets more
\* than one alert among OVER_CAPACITY_RISK, HIGH_UTILIZATION and
\* UNDER_UTILIZATION.
C28_OverCapacityAlert ==
    pc = "results" =>
        /\ OverCapacityAlerted(Deref(heap, base_analysis), baseline_alerts)
        /\ OverCapacityAlerted(Deref(heap, scenario_analysis), scenario_alerts)

\* What holds: the alert follows the peak of the timeline, which a scenario
\* leaves as it was; in the baseline the peak is not below the final
\* utilization, so there the alert is raised above 95% final utilization.
C28_AlertFollowsPeak ==
    pc = "results" =>
        /\ PeakAlerted(Deref(heap, base_analysis), baseline_alerts)
        /\ PeakAlerted(Deref(heap, scenario_analysis), scenario_alerts)
        /\ OverCapacityAlerted(capacity_analysis, baseline_alerts)

-----------------------------------------------------------------------------
(* The target band of a transfer                                           *)

\* The final utilization of the record is its current inventory over its
\* capacity (hundredths of a percent).
UtilizationOfInventory(data) ==
    data.utilization_metrics.final_utilization * data.warehouse_info.max_capacity
        = data.warehouse_info.current_inventory * 10000

\* The recommendations between two records whose final utilization is that
\* of their inventory.
BalancedRecommendations ==
    { t \in Recommendations :
        /\ UtilizationOfInventory(capacity_analysis[t.source_warehouse])
        /\ UtilizationOfInventory(capacity_analysis[t.destination_warehouse]) }

\* The utilization the transfer leaves the warehouse with, before rounding,
\* is at or above (sign 1, the source) or at or below (sign -1, the
\* destination) the target: inventories in hundredths of a unit.
ProjectedWithinBand(t) ==
    LET source == capacity_analysis[t.source_warehouse]
        dest   == capacity_analysis[t.destination_warehouse]
        q      == RecommendedTransfer(source, dest, business_rules)
        target == business_rules.optimal_range[2]
    IN  /\ (source.warehouse_info.current_inventory * 100 - q) * 100
              >= target * source.warehouse_info.max_capacity
        /\ (dest.warehouse_info.current_inventory * 100 + q) * 100
              <= target * dest.warehouse_info.max_capacity

\* C29: for every recommendation whose source and destination records
\* have final utilization equal to current_inventory / max_capacity, the
\* final utilization of the source is strictly above the target utilization
\* (so a source between 70% and the target yields no recommendation), the
\* projected source utilization is at or above the target and the
\* projected destination utilization at or below it, as reported and before
\* rounding.
C29_WithinTargetBand ==
    pc = "transfers" =>
        /\ \A t \in BalancedRecommendations :
              /\ FinalUtilization(t.source_warehouse)
                    > business_rules.optimal_range[2]
              /\ t.projected_state.source_utilization
                    >= business_rules.optimal_range[2]
              /\ t.projected_state.dest_utilization
                    <= business_rules.optimal_range[2]
              /\ ProjectedWithinBand(t)
        /\ \A w \in Range(high_util_warehouses) :
              FinalUtilization(w) <= business_rules.optimal_range[2] =>
                 \A t \in Recommendations : t.source_warehouse # w

\* A recommendation that fills its destination exactly to the target, next
\* to a candidate source between 70% and the target that sends nothing
\* although a destination is there.
C29_Witness ==
    /\ pc = "transfers"
    /\ \E t \in BalancedRecommendations :
          /\ t.projected_state.dest_utilization = business_rules.optimal_range[2]
          /\ t.projected_state.source_utilization
                > business_rules.optimal_range[2]
    /\ \E w \in Range(high_util_warehouses) :
          /\ FinalUtilization(w) <= business_rules.optimal_range[2]
          /\ UtilizationOfInventory(capacity_analysis[w])
          /\ \E d \in Range(low_util_warehouses) : d # w

\* Without the condition on the records the band can be left: a
\* destination whose inventory was rounded up ends above the target.
C29_UnbalancedStaysInBand ==
    pc = "transfers" => \A t \in Recommendations : ProjectedWithinBand(t)

-----------------------------------------------------------------------------
(* The net benefit of a transfer                                           *)

\* 'potential_cost_savings' of the network optimization summary: the sum of
\* the positive net benefits (cents).
PotentialCostSavings(transfers) ==
    SumSeq([i \in 1..Len(transfers) |->
               IF transfers[i].cost_analysis.net_benefit > 0
               THEN transfers[i].cost_analysis.net_benefit
               ELSE 0])

\* The recommendations whose source record has the final utilization of its
\* inventory.
SourceBalancedRecommendations ==
    { t \in Recommendations :
        UtilizationOfInventory(capacity_analysis[t.source_warehouse]) }

\* C30: for every recommendation whose source record has final utilization
\* equal to current_inventory / max_capacity, the storage savings are 0.05
\* per unit moved, the transfer cost is 0.10 x distance_factor per unit with
\* distance_factor >= 1.0, and net_benefit, the savings less the cost
\* rounded to the cent, is strictly negative; the reported savings less the
\* reported cost is within a cent of it.  When every recommendation is of
\* that kind, potential_cost_savings is 0.
C30_NetBenefitNegative ==
    pc = "transfers" =>
        /\ \A t \in SourceBalancedRecommendations :
              LET q  == RecommendedTransfer(
                            capacity_analysis[t.source_warehouse],
                            capacity_analysis[t.destination_warehouse],
                            business_rules)
                  df == GetDistanceFactor(t.source_warehouse,
                                          t.destination_warehouse)
                  reported == t.cost_analysis.estimated_storage_savings
                                - t.cost_analysis.estimated_transfer_cost
              IN  /\ df >= 10
                  /\ t.cost_analysis.estimated_storage_savings
                        = RoundHalfEven(5 * q, 100)
                  /\ t.cost_analysis.estimated_transfer_cost
                        = RoundHalfEven(q * df, 100)
                  /\ t.cost_analysis.net_benefit
                        = RoundHalfEven(5 * q - q * df, 100)
                  /\ t.cost_analysis.net_benefit < 0
                  /\ t.cost_analysis.net_benefit - reported \in {-1, 0, 1}
        /\ SourceBalancedRecommendations = Recommendations =>
              PotentialCostSavings(transfer_opportunities) = 0

\* Two recommendations or more, one of them on the cheapest route (factor
\* 1.0) and one whose separately rounded savings and cost are a cent away
\* from its net benefit.
C30_Witness ==
    /\ pc = "transfers"
    /\ Len(transfer_opportunities) >= 2
    /\ SourceBalancedRecommendations = Recommendations
    /\ \E t \in Recommendations :
          GetDistanceFactor(t.source_warehouse, t.destination_warehouse) = 10
    /\ \E t \in Recommendations :
          t.cost_analysis.net_benefit
             # t.cost_analysis.estimated_storage_savings
                 - t.cost_analysis.estimated_transfer_cost

====
